---- MODULE Spec2Model ----
(***************************************************************************)
(* Contact tiering core of whatsapp_auto_agent:                            *)
(*   src/src/core/contact_tier_manager.py  (ContactTierManager)            *)
(*   src/src/utils/helpers.py              (sanitize_phone_number)         *)
(* and the skip list of the configuration manager:                         *)
(*   src/src/core/config_manager.py        (ConfigManager)                 *)
(*   src/src/utils/validators.py           (validate_skip_list)            *)
(*                                                                         *)
(* Python strings that the code inspects character by character (contact   *)
(* names, phone numbers, keywords, cache keys) are sequences of one-       *)
(* character strings.  Python dicts are functions whose DOMAIN is the set  *)
(* of keys present; the empty dict is <<>>.  Python lists are sequences.   *)
(***************************************************************************)
EXTENDS Integers, Sequences, FiniteSets, TLC

(***************************************************************************)
(* Bounds of the model.                                                    *)
(***************************************************************************)
\* number of public API calls made on one manager in one behaviour
MaxCalls == 2

\* length of the phone strings sanitize_phone_number is applied to
MaxPhoneLen == 4

(***************************************************************************)
(* Strings.                                                                *)
(***************************************************************************)
\* Python's None, kept apart from every character sequence
None == <<"None">>

\* truthiness of an Optional[str]: None and "" are falsy
Truthy(s) == s # None /\ s # <<>>

Range(s) == {s[i] : i \in 1..Len(s)}

Digits == {"0", "1", "2", "3", "4", "5", "6", "7", "8", "9"}

Whitespace == {" ", "\t", "\n", "\r"}

UpperCase == <<"A", "B", "C", "D", "E", "F", "G", "H", "I", "J", "K", "L", "M",
               "N", "O", "P", "Q", "R", "S", "T", "U", "V", "W", "X", "Y", "Z">>

LowerCase == <<"a", "b", "c", "d", "e", "f", "g", "h", "i", "j", "k", "l", "m",
               "n", "o", "p", "q", "r", "s", "t", "u", "v", "w", "x", "y", "z">>

LowerChar(c) ==
    IF \E i \in 1..Len(UpperCase) : UpperCase[i] = c
    THEN LowerCase[CHOOSE i \in 1..Len(UpperCase) : UpperCase[i] = c]
    ELSE c

\* str.lower()
str_lower(s) == [i \in 1..Len(s) |-> LowerChar(s[i])]

\* str.strip(): drop leading and trailing whitespace
str_strip(s) ==
    LET keep == {i \in 1..Len(s) : s[i] \notin Whitespace}
    IN  IF keep = {} THEN <<>>
        ELSE SubSeq(s, CHOOSE i \in keep : \A j \in keep : i <= j,
                       CHOOSE i \in keep : \A j \in keep : j <= i)

\* Python's `needle in hay` for strings
str_contains(hay, needle) ==
    \E i \in 0..(Len(hay) - Len(needle)) :
        SubSeq(hay, i + 1, i + Len(needle)) = needle

\* Python's `x in lst` for lists
InList(x, lst) == \E i \in 1..Len(lst) : lst[i] = x

\* list.remove(x): drop the first occurrence
list_remove(lst, x) ==
    LET k == CHOOSE i \in 1..Len(lst) : lst[i] = x /\ \A j \in 1..(i - 1) : lst[j] # x
    IN  SubSeq(lst, 1, k - 1) \o SubSeq(lst, k + 1, Len(lst))

\* re.sub(r'[^\d+]', '', phone)
StripNonPhoneChars(phone) == SelectSeq(phone, LAMBDA c : c \in Digits \cup {"+"})

\* what follows the first '+', further '+' characters kept
PlusFirst_keeps_plus(cleaned) ==
    LET first == CHOOSE i \in 1..Len(cleaned) :
                     cleaned[i] = "+" /\ \A j \in 1..(i - 1) : cleaned[j] # "+"
    IN  <<"+">> \o SubSeq(cleaned, first + 1, Len(cleaned))

\* '+' + ''.join(cleaned.split('+')[1:]): what follows the first '+',
\* with every further '+' removed
PlusFirst(cleaned) ==
    LET first == CHOOSE i \in 1..Len(cleaned) :
                     cleaned[i] = "+" /\ \A j \in 1..(i - 1) : cleaned[j] # "+"
    IN  <<"+">> \o SelectSeq(SubSeq(cleaned, first + 1, Len(cleaned)),
                             LAMBDA c : c # "+")

\* helpers.sanitize_phone_number
sanitize_phone_number(phone) ==
    IF ~Truthy(phone) THEN <<>>
    ELSE LET cleaned == StripNonPhoneChars(phone)
         IN  IF "+" \in Range(cleaned) THEN PlusFirst(cleaned) ELSE cleaned

(***************************************************************************)
(* Dicts.                                                                  *)
(***************************************************************************)
EmptyDict == <<>>

\* dict.get(key, default)
Get(d, k, dflt) == IF k \in DOMAIN d THEN d[k] ELSE dflt

\* d[key] = value on a dict that may or may not hold the key
Put(d, k, v) == (k :> v) @@ d

(***************************************************************************)
(* Tiers and settings.                                                     *)
(***************************************************************************)
\* ContactTier enum values
ContactTier == {"main_contacts", "time_pass_contacts", "not_important"}

\* tier_priority with the first two tiers swapped
tier_priority_casual_first == <<"time_pass_contacts", "main_contacts", "not_important">>

\* the tier_priority list of categorize_contact
tier_priority == <<"main_contacts", "time_pass_contacts", "not_important">>

\* ContactSettings(): the dataclass defaults
ContactSettings ==
    [open_and_read |-> FALSE, play_sound |-> FALSE, reply_mode |-> "none",
     mark_as_read |-> FALSE, priority_level |-> "low"]

\* the default_config literal of _load_contact_tiers
default_config ==
    [contact_tiers |->
        [main_contacts |->
            [description |-> "VIP contacts - Full attention with notifications",
             by_name |-> <<>>, by_phone |-> <<>>,
             settings |-> [open_and_read |-> TRUE, play_sound |-> TRUE,
                           reply_mode |-> "informative_ai", mark_as_read |-> TRUE,
                           priority_level |-> "high"]],
         time_pass_contacts |->
            [description |-> "Casual contacts - Basic auto-replies",
             by_name |-> <<>>, by_phone |-> <<>>,
             settings |-> [open_and_read |-> FALSE, play_sound |-> FALSE,
                           reply_mode |-> "template_basic", mark_as_read |-> TRUE,
                           priority_level |-> "medium"]],
         not_important |->
            [description |-> "Low priority - Log only, no replies",
             by_name |-> <<>>, by_phone |-> <<>>,
             by_keywords |-> << <<"p", "r", "o", "m", "o", "t", "i", "o", "n">>,
                                <<"s", "p", "a", "m">>,
                                <<"o", "f", "f", "e", "r">> >>,
             settings |-> [open_and_read |-> FALSE, play_sound |-> FALSE,
                           reply_mode |-> "none", mark_as_read |-> FALSE,
                           priority_level |-> "low"]]],
     default_settings |->
        [uncategorized_contacts |-> "not_important",
         new_contact_behavior |-> "ask_user",
         auto_categorize |-> FALSE]]

\* the default_templates literal of _load_message_templates (the emoji that
\* end three of the texts are left out; the texts are never inspected)
default_templates ==
    [templates |->
        [main_contacts |->
            [greeting |-> "Hi! Thanks for reaching out. I'm currently using an auto-assistant but I'll respond personally soon!",
             informative |-> "I've received your message and will get back to you shortly with a proper response.",
             busy |-> "I'm currently busy, but I saw your message. Will respond as soon as I'm free!"],
         time_pass_contacts |->
            [default |-> "Hey! Thanks for the message. I'll get back to you when I can!",
             greeting |-> "Hello! Auto-reply here - I'll respond when I'm available!"],
         not_important |-> [none |-> ""]],
     ai_prompts |->
        [main_contacts |-> "You are responding to a VIP contact. Be personal, informative, and helpful.",
         time_pass_contacts |-> "You are responding to a casual contact. Be friendly but brief.",
         not_important |-> "No response needed."]]

(***************************************************************************)
(* JSON.  A document is a tree of typed nodes: objects, arrays, strings    *)
(* and booleans (the order of an object's members is not kept).  The       *)
(* values of the model carry no type of their own (a dict, a list and a    *)
(* string are all functions), so the encoder follows the shape the two     *)
(* documents of the manager have; the decoder reads any document.          *)
(***************************************************************************)
\* keys whose values are booleans in the ruleset document
BooleanKeys == {"open_and_read", "play_sound", "mark_as_read", "auto_categorize"}

\* keys of a tier whose values are lists of strings
ListKeys == {"by_name", "by_phone", "by_keywords"}

JsonString(s) == [json |-> "string", text |-> s]

JsonBoolean(b) == [json |-> "boolean", b |-> b]

JsonArray(items) == [json |-> "array", items |-> items]

JsonObject(members) == [json |-> "object", members |-> members]

\* a dict of strings and booleans: a settings block, default_settings
dump_settings(d) ==
    JsonObject([k \in DOMAIN d |->
        IF k \in BooleanKeys THEN JsonBoolean(d[k]) ELSE JsonString(d[k])])

\* the dict of one tier written without its by_keywords list
dump_tier_data_no_keywords(d) ==
    JsonObject([k \in DOMAIN d \ {"by_keywords"} |->
        IF k \in ListKeys
        THEN JsonArray([i \in DOMAIN d[k] |-> JsonString(d[k][i])])
        ELSE IF k = "settings" THEN dump_settings(d[k])
        ELSE JsonString(d[k])])

\* the dict of one tier: lists of strings, a settings block, a description
dump_tier_data(d) ==
    JsonObject([k \in DOMAIN d |->
        IF k \in ListKeys
        THEN JsonArray([i \in DOMAIN d[k] |-> JsonString(d[k][i])])
        ELSE IF k = "settings" THEN dump_settings(d[k])
        ELSE JsonString(d[k])])

\* a dict of strings: the templates of a tier, ai_prompts
dump_strings(d) == JsonObject([k \in DOMAIN d |-> JsonString(d[k])])

\* json.dump(obj, f) for the two dicts the manager writes: the ruleset
\* (contact_tiers, default_settings) and the templates (templates,
\* ai_prompts)
json_dump(obj) ==
    JsonObject([k \in DOMAIN obj |->
        CASE k = "contact_tiers" ->
                JsonObject([t \in DOMAIN obj[k] |-> dump_tier_data(obj[k][t])])
          [] k = "templates" ->
                JsonObject([t \in DOMAIN obj[k] |-> dump_strings(obj[k][t])])
          [] k = "ai_prompts" -> dump_strings(obj[k])
          [] OTHER -> dump_settings(obj[k])])

\* json.load(f) on a well-formed document
RECURSIVE json_load(_)
json_load(doc) ==
    CASE doc.json = "object" ->
            [k \in DOMAIN doc.members |-> json_load(doc.members[k])]
      [] doc.json = "array" ->
            [i \in DOMAIN doc.items |-> json_load(doc.items[i])]
      [] doc.json = "string" -> doc.text
      [] doc.json = "boolean" -> doc.b

(***************************************************************************)
(* Files the manager can find on disk, and the arguments of the calls.     *)
(***************************************************************************)
\* a file is absent, holds a JSON document, or holds text json.load
\* rejects (a truncated or empty file among them)
AbsentFile == [state |-> "absent", data |-> EmptyDict]

\* the file json.dump(d, f) leaves behind
JsonFile(d) == [state |-> "json", data |-> json_dump(d)]

GarbageFile == [state |-> "garbage", data |-> EmptyDict]

\* a hand-edited ruleset: raw (unnormalized) list entries, an upper-case
\* keyword, a tier without by_phone and with partial settings, and a
\* default tier other than not_important
RulesetCustom ==
    [contact_tiers |->
        [main_contacts |->
            [by_name |-> <<>>, by_phone |-> << <<"+", "1", "-", "5">> >>,
             settings |-> [open_and_read |-> TRUE, play_sound |-> TRUE,
                           reply_mode |-> "informative_ai", mark_as_read |-> TRUE,
                           priority_level |-> "high"]],
         time_pass_contacts |->
            [by_name |-> << <<"A", "l", " ">> >>,
             settings |-> [reply_mode |-> "template_basic"]],
         not_important |->
            [by_name |-> <<>>, by_phone |-> <<>>,
             by_keywords |-> << <<"S", "P">> >>,
             settings |-> [open_and_read |-> FALSE, play_sound |-> FALSE,
                           reply_mode |-> "none", mark_as_read |-> FALSE,
                           priority_level |-> "low"]]],
     default_settings |-> [uncategorized_contacts |-> "time_pass_contacts"]]

\* a ruleset whose default tier is not a ContactTier value
RulesetBadDefault ==
    [contact_tiers |-> default_config.contact_tiers,
     default_settings |-> [uncategorized_contacts |-> "vip"]]

\* a ruleset without the time_pass_contacts tier
RulesetNoCasual ==
    [contact_tiers |->
        [main_contacts |-> default_config.contact_tiers.main_contacts,
         not_important |-> default_config.contact_tiers.not_important],
     default_settings |-> default_config.default_settings]

ConfigFiles ==
    {AbsentFile, GarbageFile, JsonFile(RulesetCustom), JsonFile(RulesetBadDefault),
     JsonFile(RulesetNoCasual)}

TemplateFiles == {AbsentFile}

\* hand-edited templates: MAIN has an empty "busy" template next to a
\* "default" one, the casual tier has no "default", not_important has no
\* templates at all
TemplatesCustom ==
    [templates |->
        [main_contacts |-> [busy |-> "", default |-> "Hi, I will call you back.",
                            greeting |-> "Hello!"],
         time_pass_contacts |-> [greeting |-> "Hey!"]],
     ai_prompts |-> [main_contacts |-> "Be helpful."]]

\* the template_type argument of get_reply_template
TemplateTypes == {"default", "greeting", "busy"}

\* contact names passed to the API: "al" and "Al " (the same name in another
\* case and with padding)
Names == { <<"a", "l">>, <<"A", "l", " ">> }

\* phone numbers passed to the API: None, "+1-5" (a formatted number) and
\* "-" (a non-empty string without any digit)
Phones == { None, <<"+", "1", "-", "5">>, <<"-">> }

\* names and phones a resolution is asked about: the above, a name a keyword
\* hits ("spam") and the empty name, the number in another format ("+15"),
\* another number ("15") and the empty string
QueryNames == Names \cup { <<"s", "p", "a", "m">>, <<>> }

QueryPhones == Phones \cup { <<"+", "1", "5">>, <<"1", "5">>, <<>> }

(***************************************************************************)
(* State of one ContactTierManager and of the two files it owns.           *)
(***************************************************************************)
VARIABLES
    contact_tiers,      \* self.contact_tiers: the in-memory ruleset dict
    message_templates,  \* self.message_templates
    contact_cache,      \* self.contact_cache: cache key -> ContactInfo
    config_file,        \* the file at self.config_path
    templates_file,     \* the file at self.templates_path
    load_task,          \* the _load_configurations task created by __init__
    last_call,          \* the latest public call: its name and arguments
    ret,                \* what the latest public call returned or raised
    calls,              \* number of public calls made so far
    threads,            \* the add/remove call each thread is inside of
    _skip_list,         \* ConfigManager._skip_list
    skip_list_file      \* the file at ConfigManager.skip_list_path

vars == <<contact_tiers, message_templates, contact_cache, config_file,
          templates_file, load_task, last_call, ret, calls,
          threads, _skip_list, skip_list_file>>

\* outcomes of a call
NoReturn == [status |-> "none", exc |-> "", type |-> "", value |-> FALSE]

Returned(type, value) ==
    [status |-> "returned", exc |-> "", type |-> type, value |-> value]

Raised(exc) == [status |-> "raised", exc |-> exc, type |-> "", value |-> FALSE]

\* the threads that call add_contact_to_tier and remove_contact_from_tier
Threads == {"t1", "t2"}

\* a thread that is not inside a call: `pc` is the statement it is about to
\* run, `found` the outcome of the membership test it ran last
IdleThread ==
    [pc |-> "idle", op |-> "", name |-> <<>>, phone |-> None, tier |-> "",
     found |-> FALSE, ret |-> NoReturn]

\* the call record: `cached` is the tier held in contact_cache under the
\* call's cache key when the call started ("" when there was no entry),
\* `repeat` says that the previous call was the same call with the same
\* arguments and returned normally, `after` is the operation of the previous
\* call when that call returned normally ("" otherwise)
Call(op, name, phone, tier, cached) ==
    [op |-> op, name |-> name, phone |-> phone, tier |-> tier, cached |-> cached,
     repeat |-> /\ last_call.op = op /\ last_call.name = name
                /\ last_call.phone = phone /\ last_call.tier = tier
                /\ ret.status = "returned",
     after |-> IF ret.status = "returned" THEN last_call.op ELSE ""]

NoCall ==
    [op |-> "", name |-> <<>>, phone |-> None, tier |-> "", cached |-> "",
     repeat |-> FALSE, after |-> ""]

(***************************************************************************)
(* Resolution: categorize_contact and its helpers.                         *)
(***************************************************************************)
\* self.contact_tiers.get("contact_tiers", {}).get(tier.value, {})
TierData(tier) == Get(Get(contact_tiers, "contact_tiers", EmptyDict), tier, EmptyDict)

\* _is_contact_in_tier comparing the cleaned name with the raw list entries
_is_contact_in_tier_raw_names(contact_name, phone_number, tier) ==
    LET tier_data == TierData(tier)
        by_name == Get(tier_data, "by_name", <<>>)
        by_phone == Get(tier_data, "by_phone", <<>>)
        keywords == Get(tier_data, "by_keywords", <<>>)
        tier_phones == [i \in 1..Len(by_phone) |-> sanitize_phone_number(by_phone[i])]
    IN  \/ InList(contact_name, by_name)
        \/ Truthy(phone_number) /\ InList(phone_number, tier_phones)
        \/ \E i \in 1..Len(keywords) : str_contains(contact_name, str_lower(keywords[i]))

\* _is_contact_in_tier without the keyword check
_is_contact_in_tier_no_keywords(contact_name, phone_number, tier) ==
    LET tier_data == TierData(tier)
        by_name == Get(tier_data, "by_name", <<>>)
        by_phone == Get(tier_data, "by_phone", <<>>)
        tier_names == [i \in 1..Len(by_name) |-> str_strip(str_lower(by_name[i]))]
        tier_phones == [i \in 1..Len(by_phone) |-> sanitize_phone_number(by_phone[i])]
    IN  \/ InList(contact_name, tier_names)
        \/ Truthy(phone_number) /\ InList(phone_number, tier_phones)

\* ContactTierManager._is_contact_in_tier; contact_name and phone_number
\* arrive cleaned, phone_number is None when no phone was given
_is_contact_in_tier(contact_name, phone_number, tier) ==
    LET tier_data == TierData(tier)
        by_name == Get(tier_data, "by_name", <<>>)
        by_phone == Get(tier_data, "by_phone", <<>>)
        keywords == Get(tier_data, "by_keywords", <<>>)
        tier_names == [i \in 1..Len(by_name) |-> str_strip(str_lower(by_name[i]))]
        tier_phones == [i \in 1..Len(by_phone) |-> sanitize_phone_number(by_phone[i])]
    IN  \/ InList(contact_name, tier_names)
        \/ Truthy(phone_number) /\ InList(phone_number, tier_phones)
        \/ \E i \in 1..Len(keywords) : str_contains(contact_name, str_lower(keywords[i]))

\* ContactTierManager._get_tier_settings
_get_tier_settings(tier) ==
    LET settings_data == Get(TierData(tier), "settings", EmptyDict)
    IN  [open_and_read |-> Get(settings_data, "open_and_read", FALSE),
         play_sound |-> Get(settings_data, "play_sound", FALSE),
         reply_mode |-> Get(settings_data, "reply_mode", "none"),
         mark_as_read |-> Get(settings_data, "mark_as_read", FALSE),
         priority_level |-> Get(settings_data, "priority_level", "low")]

\* the (tier, settings) tuple categorize_contact returns
TierAndSettings(tier) == [tier |-> tier, settings |-> _get_tier_settings(tier)]

\* the `for tier in tier_priority` loop: index of the first tier the
\* contact is in, 0 when the loop falls through
FirstTierIndex(clean_name, clean_phone) ==
    LET hits == {i \in 1..Len(tier_priority) :
                    _is_contact_in_tier(clean_name, clean_phone, tier_priority[i])}
    IN  IF hits = {} THEN 0 ELSE CHOOSE i \in hits : \A j \in hits : i <= j

\* categorize_contact falling back to not_important without reading
\* default_settings
categorize_contact_fixed_default(contact_name, phone_number) ==
    LET clean_name == str_strip(str_lower(contact_name))
        clean_phone == IF Truthy(phone_number)
                       THEN sanitize_phone_number(phone_number) ELSE None
        first == FirstTierIndex(clean_name, clean_phone)
    IN  IF first # 0 THEN Returned("tuple", TierAndSettings(tier_priority[first]))
        ELSE Returned("tuple", TierAndSettings("not_important"))

\* ContactTierManager.categorize_contact: the tuple it returns, or the
\* ValueError ContactTier(default_tier_name) raises
categorize_contact(contact_name, phone_number) ==
    LET clean_name == str_strip(str_lower(contact_name))
        clean_phone == IF Truthy(phone_number)
                       THEN sanitize_phone_number(phone_number) ELSE None
        first == FirstTierIndex(clean_name, clean_phone)
        default_tier_name ==
            Get(Get(contact_tiers, "default_settings", EmptyDict),
                "uncategorized_contacts", "not_important")
    IN  IF first # 0 THEN Returned("tuple", TierAndSettings(tier_priority[first]))
        ELSE IF default_tier_name \notin ContactTier THEN Raised("ValueError")
        ELSE Returned("tuple", TierAndSettings(default_tier_name))

(***************************************************************************)
(* The contact cache: get_contact_info and the should_* lookups.           *)
(***************************************************************************)
NoPhoneKey == <<"n", "o", "_", "p", "h", "o", "n", "e">>

\* f"{contact_name}:{phone_number or 'no_phone'}"
cache_key(contact_name, phone_number) ==
    contact_name \o <<":">> \o (IF Truthy(phone_number) THEN phone_number ELSE NoPhoneKey)

\* tier cached under the call's key, "" when there is no entry
CachedTier(contact_name, phone_number) ==
    LET key == cache_key(contact_name, phone_number)
    IN  IF key \in DOMAIN contact_cache THEN contact_cache[key].tier ELSE ""

\* the ContactInfo get_contact_info builds on a cache miss
ContactInfo(contact_name, phone_number, tuple) ==
    [name |-> contact_name,
     phone |-> IF Truthy(phone_number) THEN phone_number ELSE <<>>,
     tier |-> tuple.tier, settings |-> tuple.settings, last_interaction |-> None]

\* ContactTierManager.get_contact_info: what it returns or raises
get_contact_info(contact_name, phone_number) ==
    LET key == cache_key(contact_name, phone_number)
        found == categorize_contact(contact_name, phone_number)
    IN  IF key \in DOMAIN contact_cache
        THEN Returned("ContactInfo", contact_cache[key])
        ELSE IF found.status = "raised" THEN found
        ELSE Returned("ContactInfo", ContactInfo(contact_name, phone_number, found.value))

\* ContactTierManager.get_contact_info: the cache it leaves behind
cache_after_lookup(contact_name, phone_number) ==
    LET key == cache_key(contact_name, phone_number)
        info == get_contact_info(contact_name, phone_number)
    IN  IF key \in DOMAIN contact_cache \/ info.status = "raised"
        THEN contact_cache
        ELSE Put(contact_cache, key, info.value)

\* the cache left as it is: no invalidation
cache_without_nothing(contact_name, phone_number) == contact_cache

\* `del self.contact_cache[cache_key]` when the key is present
cache_without(contact_name, phone_number) ==
    LET key == cache_key(contact_name, phone_number)
    IN  [k \in DOMAIN contact_cache \ {key} |-> contact_cache[k]]

\* ContactTierManager.should_reply_to_contact: what it returns or raises
should_reply_to_contact(contact_name, phone_number) ==
    LET contact_info == get_contact_info(contact_name, phone_number)
    IN  IF contact_info.status = "raised" THEN contact_info
        ELSE Returned("bool", contact_info.value.settings.reply_mode # "none")

\* ContactTierManager.should_play_notification: what it returns or raises
should_play_notification(contact_name, phone_number) ==
    LET contact_info == get_contact_info(contact_name, phone_number)
    IN  IF contact_info.status = "raised" THEN contact_info
        ELSE Returned("bool", contact_info.value.settings.play_sound)

\* ContactTierManager.should_open_and_read: what it returns or raises
should_open_and_read(contact_name, phone_number) ==
    LET contact_info == get_contact_info(contact_name, phone_number)
    IN  IF contact_info.status = "raised" THEN contact_info
        ELSE Returned("bool", contact_info.value.settings.open_and_read)

\* ContactTierManager.get_reply_template: what it returns or raises;
\* tier_templates.get(template_type) is falsy when the key is absent (None)
\* and when the template stored under it is the empty string
get_reply_template(contact_name, phone_number, template_type) ==
    LET contact_info == get_contact_info(contact_name, phone_number)
        tier_templates ==
            Get(Get(message_templates, "templates", EmptyDict),
                contact_info.value.tier, EmptyDict)
        named == Get(tier_templates, template_type, "")
    IN  IF contact_info.status = "raised" THEN contact_info
        ELSE IF named # "" THEN Returned("str", named)
        ELSE Returned("str", Get(tier_templates, "default", ""))

\* a call that goes through get_contact_info: it returns `result` and
\* leaves the looked-up ContactInfo in the cache
Lookup(op, contact_name, phone_number, result) ==
    /\ calls < MaxCalls
    /\ calls' = calls + 1
    /\ last_call' = Call(op, contact_name, phone_number, "",
                         CachedTier(contact_name, phone_number))
    /\ contact_cache' = cache_after_lookup(contact_name, phone_number)
    /\ ret' = result
    /\ UNCHANGED <<threads, _skip_list, skip_list_file>>
    /\ UNCHANGED <<contact_tiers, message_templates, config_file,
                   templates_file, load_task>>

\* a direct call of categorize_contact
CategorizeContact(contact_name, phone_number) ==
    /\ calls < MaxCalls
    /\ calls' = calls + 1
    /\ last_call' = Call("categorize_contact", contact_name, phone_number, "",
                         CachedTier(contact_name, phone_number))
    /\ ret' = categorize_contact(contact_name, phone_number)
    /\ UNCHANGED <<threads, _skip_list, skip_list_file>>
    /\ UNCHANGED <<contact_tiers, message_templates, contact_cache, config_file,
                   templates_file, load_task>>

\* a call of get_contact_info
GetContactInfo(contact_name, phone_number) ==
    Lookup("get_contact_info", contact_name, phone_number,
           get_contact_info(contact_name, phone_number))

\* a call of should_reply_to_contact
ShouldReplyToContact(contact_name, phone_number) ==
    Lookup("should_reply_to_contact", contact_name, phone_number,
           should_reply_to_contact(contact_name, phone_number))

\* a call of should_play_notification
ShouldPlayNotification(contact_name, phone_number) ==
    Lookup("should_play_notification", contact_name, phone_number,
           should_play_notification(contact_name, phone_number))

\* a call of should_open_and_read
ShouldOpenAndRead(contact_name, phone_number) ==
    Lookup("should_open_and_read", contact_name, phone_number,
           should_open_and_read(contact_name, phone_number))

\* a call of get_reply_template; the call record carries template_type
GetReplyTemplate(contact_name, phone_number, template_type) ==
    /\ calls < MaxCalls
    /\ calls' = calls + 1
    /\ last_call' = ("template_type" :> template_type) @@
                     Call("get_reply_template", contact_name, phone_number, "",
                          CachedTier(contact_name, phone_number))
    /\ contact_cache' = cache_after_lookup(contact_name, phone_number)
    /\ ret' = get_reply_template(contact_name, phone_number, template_type)
    /\ UNCHANGED <<threads, _skip_list, skip_list_file>>
    /\ UNCHANGED <<contact_tiers, message_templates, config_file,
                   templates_file, load_task>>

\* names bound where get_tier_statistics runs: its locals, the names the
\* module imports and defines (Python's builtins hold no `s` either)
NamesInScope ==
    {"self", "stats", "tier_name", "tier_data", "name_count", "phone_count",
     "json", "asyncio", "Dict", "Any", "Optional", "Tuple", "List", "Path",
     "dataclass", "Enum", "ConfigurationError", "sanitize_phone_number",
     "clean_message_text", "ContactTier", "ContactSettings", "ContactInfo",
     "ContactTierManager"}

\* ContactTierManager.get_tier_statistics: the stats dict it builds, and
\* the expression statement `s` that is evaluated before `return stats`
get_tier_statistics ==
    LET tiers == Get(contact_tiers, "contact_tiers", EmptyDict)
        stats == [tier_name \in DOMAIN tiers |->
                    LET name_count == Len(Get(tiers[tier_name], "by_name", <<>>))
                        phone_count == Len(Get(tiers[tier_name], "by_phone", <<>>))
                    IN  [by_name |-> name_count, by_phone |-> phone_count,
                         total |-> name_count + phone_count]]
    IN  IF "s" \in NamesInScope THEN Returned("dict", stats) ELSE Raised("NameError")

\* a call of get_tier_statistics
GetTierStatistics ==
    /\ calls < MaxCalls
    /\ calls' = calls + 1
    /\ last_call' = Call("get_tier_statistics", <<>>, None, "", "")
    /\ ret' = get_tier_statistics
    /\ UNCHANGED <<threads, _skip_list, skip_list_file>>
    /\ UNCHANGED <<contact_tiers, message_templates, contact_cache, config_file,
                   templates_file, load_task>>

\* ContactTierManager.clear_contact_cache
ClearContactCache ==
    /\ calls < MaxCalls
    /\ calls' = calls + 1
    /\ last_call' = Call("clear_contact_cache", <<>>, None, "", "")
    /\ contact_cache' = EmptyDict
    /\ ret' = Returned("None", FALSE)
    /\ UNCHANGED <<threads, _skip_list, skip_list_file>>
    /\ UNCHANGED <<contact_tiers, message_templates, config_file,
                   templates_file, load_task>>

(***************************************************************************)
(* The mutation API and persistence.                                       *)
(***************************************************************************)
\* outcomes of `with open(path, 'w') as f: json.dump(obj, f)`: the file is
\* written, or the open fails (OSError) and the file is left as it was, or
\* the open truncates the file and a write of the dump fails
WriteOutcomes == {"ok", "open_fails", "dump_fails"}

\* the file after `with open(path, 'w') as f: json.dump(obj, f)`
write_file(file, obj, write) ==
    CASE write = "ok" -> JsonFile(obj)
      [] write = "open_fails" -> file
      [] OTHER -> GarbageFile

\* the ruleset dict with `tier_data` stored under a key of its own
WithTierData_own_key(tier, tier_data) ==
    Put(contact_tiers, "contact_tiers",
        Put(Get(contact_tiers, "contact_tiers", EmptyDict), "contacts", tier_data))

\* the ruleset dict with `tier_data` stored under contact_tiers[tier]
WithTierData(tier, tier_data) ==
    Put(contact_tiers, "contact_tiers",
        Put(Get(contact_tiers, "contact_tiers", EmptyDict), tier, tier_data))

\* names_list after an unconditional append
names_after_add_always(names_list, contact_name) == Append(names_list, contact_name)

\* add_contact_to_tier: names_list after `if contact_name not in names_list`
names_after_add(names_list, contact_name) ==
    IF InList(contact_name, names_list) THEN names_list
    ELSE Append(names_list, contact_name)

\* add_contact_to_tier: phones_list after `if clean_phone not in phones_list`
phones_after_add(phones_list, phone_number) ==
    LET clean_phone == sanitize_phone_number(phone_number)
    IN  IF InList(clean_phone, phones_list) THEN phones_list
        ELSE Append(phones_list, clean_phone)

\* an add that also empties the tier's keyword list
tiers_after_add_dropping_keywords(contact_name, phone_number, tier) ==
    LET tier_data == TierData(tier)
        named == Put(tier_data, "by_name",
                     names_after_add(Get(tier_data, "by_name", <<>>), contact_name))
        phoned == IF Truthy(phone_number)
                  THEN Put(named, "by_phone",
                           phones_after_add(Get(named, "by_phone", <<>>), phone_number))
                  ELSE named
    IN  WithTierData(tier, Put(phoned, "by_keywords", <<>>))

\* add_contact_to_tier: self.contact_tiers after the two list updates; the
\* setdefault calls create every dict and list that is missing
tiers_after_add(contact_name, phone_number, tier) ==
    LET tier_data == TierData(tier)
        named == Put(tier_data, "by_name",
                     names_after_add(Get(tier_data, "by_name", <<>>), contact_name))
        phoned == IF Truthy(phone_number)
                  THEN Put(named, "by_phone",
                           phones_after_add(Get(named, "by_phone", <<>>), phone_number))
                  ELSE named
    IN  WithTierData(tier, phoned)

\* remove_contact_from_tier dropping the first by_name entry that equals the
\* name after normalization
tiers_after_remove_normalized(contact_name, phone_number, tier) ==
    LET tier_data == TierData(tier)
        names_list == Get(tier_data, "by_name", <<>>)
        same(i) == str_strip(str_lower(names_list[i])) = str_strip(str_lower(contact_name))
        hits == {i \in 1..Len(names_list) : same(i)}
        k == CHOOSE i \in hits : \A j \in hits : i <= j
    IN  IF hits = {} THEN contact_tiers
        ELSE WithTierData(tier, Put(tier_data, "by_name",
                 SubSeq(names_list, 1, k - 1) \o SubSeq(names_list, k + 1, Len(names_list))))

\* remove_contact_from_tier: self.contact_tiers after the two list updates;
\* the .get(..., {}) and .get(..., []) defaults are temporaries, so a
\* missing tier or list leaves the ruleset as it is
tiers_after_remove(contact_name, phone_number, tier) ==
    LET tier_data == TierData(tier)
        names_list == Get(tier_data, "by_name", <<>>)
        named == IF InList(contact_name, names_list)
                 THEN Put(tier_data, "by_name", list_remove(names_list, contact_name))
                 ELSE tier_data
        phones_list == Get(named, "by_phone", <<>>)
        clean_phone == sanitize_phone_number(phone_number)
        phoned == IF Truthy(phone_number) /\ InList(clean_phone, phones_list)
                  THEN Put(named, "by_phone", list_remove(phones_list, clean_phone))
                  ELSE named
    IN  IF phoned = tier_data THEN contact_tiers ELSE WithTierData(tier, phoned)

\* a mutation that touches the in-memory ruleset only once the save succeeded
Mutate_save_first(op, contact_name, phone_number, tier, new_tiers, write) ==
    /\ calls < MaxCalls
    /\ calls' = calls + 1
    /\ last_call' = Call(op, contact_name, phone_number, tier,
                         CachedTier(contact_name, phone_number))
    /\ config_file' = write_file(config_file, new_tiers, write)
    /\ IF write = "ok"
       THEN /\ contact_tiers' = new_tiers
            /\ contact_cache' = cache_without(contact_name, phone_number)
            /\ ret' = Returned("bool", TRUE)
       ELSE /\ ret' = Raised("ConfigurationError")
            /\ UNCHANGED <<contact_tiers, contact_cache>>
    /\ UNCHANGED <<threads, _skip_list, skip_list_file>>
    /\ UNCHANGED <<message_templates, templates_file, load_task>>

\* a mutation that drops the call's cache key before the save is attempted
Mutate_invalidate_first(op, contact_name, phone_number, tier, new_tiers, write) ==
    /\ calls < MaxCalls
    /\ calls' = calls + 1
    /\ last_call' = Call(op, contact_name, phone_number, tier,
                         CachedTier(contact_name, phone_number))
    /\ contact_tiers' = new_tiers
    /\ config_file' = write_file(config_file, new_tiers, write)
    /\ contact_cache' = cache_without(contact_name, phone_number)
    /\ ret' = IF write = "ok" THEN Returned("bool", TRUE)
              ELSE Raised("ConfigurationError")
    /\ UNCHANGED <<threads, _skip_list, skip_list_file>>
    /\ UNCHANGED <<message_templates, templates_file, load_task>>

\* the body shared by add_contact_to_tier and remove_contact_from_tier:
\* update the lists in memory, save, drop the call's cache key; an
\* exception of the save is re-raised as ConfigurationError
Mutate(op, contact_name, phone_number, tier, new_tiers, write) ==
    /\ calls < MaxCalls
    /\ calls' = calls + 1
    /\ last_call' = Call(op, contact_name, phone_number, tier,
                         CachedTier(contact_name, phone_number))
    /\ contact_tiers' = new_tiers
    /\ config_file' = write_file(config_file, new_tiers, write)
    /\ IF write = "ok"
       THEN /\ contact_cache' = cache_without(contact_name, phone_number)
            /\ ret' = Returned("bool", TRUE)
       ELSE /\ ret' = Raised("ConfigurationError")
            /\ UNCHANGED contact_cache
    /\ UNCHANGED <<threads, _skip_list, skip_list_file>>
    /\ UNCHANGED <<message_templates, templates_file, load_task>>

\* ContactTierManager.add_contact_to_tier
AddContactToTier(contact_name, phone_number, tier, write) ==
    Mutate("add_contact_to_tier", contact_name, phone_number, tier,
           tiers_after_add(contact_name, phone_number, tier), write)

\* ContactTierManager.remove_contact_from_tier
RemoveContactFromTier(contact_name, phone_number, tier, write) ==
    Mutate("remove_contact_from_tier", contact_name, phone_number, tier,
           tiers_after_remove(contact_name, phone_number, tier), write)

\* ContactTierManager._save_contact_tiers called on its own
SaveContactTiers(write) ==
    /\ calls < MaxCalls
    /\ calls' = calls + 1
    /\ last_call' = Call("_save_contact_tiers", <<>>, None, "", "")
    /\ config_file' = write_file(config_file, contact_tiers, write)
    /\ ret' = IF write = "ok" THEN Returned("None", FALSE) ELSE Raised("OSError")
    /\ UNCHANGED <<threads, _skip_list, skip_list_file>>
    /\ UNCHANGED <<contact_tiers, message_templates, contact_cache,
                   templates_file, load_task>>

(***************************************************************************)
(* Loading: the task __init__ creates runs _load_configurations once.      *)
(***************************************************************************)
\* a load that keeps the defaults in memory without writing the file
load_file_no_write(file, in_memory, defaults, write) ==
    CASE file.state = "absent" ->
            [file |-> file, data |-> defaults, raised |-> FALSE]
      [] file.state = "json" ->
            [file |-> file, data |-> json_load(file.data), raised |-> FALSE]
      [] OTHER ->
            [file |-> file, data |-> in_memory, raised |-> TRUE]

\* _load_contact_tiers / _load_message_templates on one file: what the
\* file and the in-memory dict are afterwards and whether the load raised
load_file(file, in_memory, defaults, write) ==
    CASE file.state = "absent" /\ write = "ok" ->
            [file |-> JsonFile(defaults), data |-> defaults, raised |-> FALSE]
      [] file.state = "absent" /\ write # "ok" ->
            [file |-> write_file(file, defaults, write), data |-> in_memory,
             raised |-> TRUE]
      [] file.state = "json" ->
            [file |-> file, data |-> json_load(file.data), raised |-> FALSE]
      [] OTHER ->
            [file |-> file, data |-> in_memory, raised |-> TRUE]

\* ContactTierManager._load_configurations, run by the event loop; an
\* exception ends the task and is kept by it
LoadConfigurations(write_tiers, write_templates) ==
    LET tiers == load_file(config_file, contact_tiers, default_config, write_tiers)
        templates == load_file(templates_file, message_templates, default_templates,
                               write_templates)
    IN  /\ load_task.state = "scheduled"
        /\ contact_tiers' = tiers.data
        /\ config_file' = tiers.file
        /\ IF tiers.raised
           THEN UNCHANGED <<message_templates, templates_file>>
           ELSE /\ message_templates' = templates.data
                /\ templates_file' = templates.file
        /\ load_task' = [state |-> IF tiers.raised \/ templates.raised
                                   THEN "failed" ELSE "done",
                         found |-> config_file.state]
        /\ UNCHANGED <<threads, _skip_list, skip_list_file>>
        /\ UNCHANGED <<contact_cache, last_call, ret, calls>>

\* ContactTierManager._load_contact_tiers called on its own (a reload)
LoadContactTiers(write) ==
    LET tiers == load_file(config_file, contact_tiers, default_config, write)
    IN  /\ calls < MaxCalls
        /\ calls' = calls + 1
        /\ last_call' = Call("_load_contact_tiers", <<>>, None, "", "")
        /\ contact_tiers' = tiers.data
        /\ config_file' = tiers.file
        /\ ret' = IF ~tiers.raised THEN Returned("None", FALSE)
                  ELSE IF config_file.state = "garbage" THEN Raised("JSONDecodeError")
                  ELSE Raised("OSError")
        /\ UNCHANGED <<threads, _skip_list, skip_list_file>>
        /\ UNCHANGED <<message_templates, contact_cache, templates_file, load_task>>

(***************************************************************************)
(* The manager right after construction, and its behaviours.               *)
(***************************************************************************)
Tiers == {tier_priority[i] : i \in 1..Len(tier_priority)}

Init ==
    /\ contact_tiers = EmptyDict
    /\ message_templates = EmptyDict
    /\ contact_cache = EmptyDict
    /\ config_file \in ConfigFiles
    /\ templates_file \in TemplateFiles
    /\ load_task = [state |-> "scheduled", found |-> ""]
    /\ last_call = NoCall
    /\ ret = NoReturn
    /\ calls = 0
    /\ threads = [t \in Threads |-> IdleThread]
    /\ _skip_list = EmptyDict
    /\ skip_list_file = AbsentFile

Next ==
    \/ LoadConfigurations("ok", "ok")
    \/ \E n \in Names, p \in Phones : CategorizeContact(n, p)
    \/ \E n \in Names, p \in Phones : GetContactInfo(n, p)
    \/ \E n \in Names, p \in Phones : ShouldReplyToContact(n, p)
    \/ \E n \in Names, p \in Phones : ShouldPlayNotification(n, p)
    \/ \E n \in Names, p \in Phones : ShouldOpenAndRead(n, p)
    \/ \E n \in Names, p \in Phones, t \in Tiers : AddContactToTier(n, p, t, "ok")
    \/ \E n \in Names, p \in Phones, t \in Tiers : RemoveContactFromTier(n, p, t, "ok")
    \/ GetTierStatistics
    \/ ClearContactCache

Spec == Init /\ [][Next]_vars

(***************************************************************************)
(* The manager used as intended: the load task has run on a readable       *)
(* ruleset file (or on none) before the first call is made.                *)
(***************************************************************************)
InitLoaded ==
    \E file \in ConfigFiles :
        LET tiers == load_file(file, EmptyDict, default_config, "ok")
            templates == load_file(AbsentFile, EmptyDict, default_templates, "ok")
        IN  /\ ~tiers.raised
            /\ contact_tiers = tiers.data
            /\ config_file = tiers.file
            /\ message_templates = templates.data
            /\ templates_file = templates.file
            /\ contact_cache = EmptyDict
            /\ load_task = [state |-> "done", found |-> file.state]
            /\ last_call = NoCall
            /\ ret = NoReturn
            /\ calls = 0
            /\ threads = [t \in Threads |-> IdleThread]
            /\ _skip_list = EmptyDict
            /\ skip_list_file = AbsentFile

NextLoaded ==
    \/ \E n \in Names, p \in Phones : CategorizeContact(n, p)
    \/ \E n \in Names, p \in Phones : GetContactInfo(n, p)
    \/ \E n \in Names, p \in Phones : ShouldReplyToContact(n, p)
    \/ \E n \in Names, p \in Phones : ShouldPlayNotification(n, p)
    \/ \E n \in Names, p \in Phones : ShouldOpenAndRead(n, p)
    \/ \E n \in Names, p \in Phones, t \in Tiers : AddContactToTier(n, p, t, "ok")
    \/ \E n \in Names, p \in Phones, t \in Tiers : RemoveContactFromTier(n, p, t, "ok")
    \/ GetTierStatistics
    \/ ClearContactCache

SpecLoaded == InitLoaded /\ [][NextLoaded]_vars

(***************************************************************************)
(* The ruleset store: loads, saves and mutations with every outcome a      *)
(* write of the ruleset file can have.                                     *)
(***************************************************************************)
NextStore ==
    \/ \E w \in WriteOutcomes : LoadConfigurations(w, "ok")
    \/ \E w \in WriteOutcomes : LoadContactTiers(w)
    \/ \E w \in WriteOutcomes : SaveContactTiers(w)
    \/ \E n \in Names, p \in Phones, t \in Tiers, w \in WriteOutcomes :
            AddContactToTier(n, p, t, w)
    \/ \E n \in Names, p \in Phones, t \in Tiers, w \in WriteOutcomes :
            RemoveContactFromTier(n, p, t, w)

SpecStore == Init /\ [][NextStore]_vars

(***************************************************************************)
(* The cache next to the store: lookups that fill the cache, and mutations *)
(* with every outcome of the save, on a loaded manager.                    *)
(***************************************************************************)
NextCacheStore ==
    \/ \E n \in Names, p \in Phones : GetContactInfo(n, p)
    \/ \E n \in Names, p \in Phones, t \in Tiers, w \in WriteOutcomes :
            AddContactToTier(n, p, t, w)
    \/ \E n \in Names, p \in Phones, t \in Tiers, w \in WriteOutcomes :
            RemoveContactFromTier(n, p, t, w)

SpecCacheStore == InitLoaded /\ [][NextCacheStore]_vars

(***************************************************************************)
(* Resolution on its own: categorize_contact is a function of the loaded   *)
(* ruleset and its two arguments.  The rulesets are those a ruleset file   *)
(* can hold: every tier lists nothing, a name, a phone, a keyword or all   *)
(* three, and the default tier is one of the tiers, absent, or not a tier  *)
(* at all.                                                                 *)
(***************************************************************************)
\* the settings block of a tier in the generated rulesets
StockSettings(tier) == default_config.contact_tiers[tier].settings

\* what a tier lists: nothing, a name, a phone, a keyword, or all three
\* (written as a hand-edited file has them: padded, formatted, upper-case)
RuleLists ==
    LET name == << <<"A", "l", " ">> >>
        phone == << <<"+", "1", "-", "5">> >>
        keyword == << <<"S", "P">> >>
    IN  {<< <<>>, <<>>, <<>> >>, << name, <<>>, <<>> >>, << <<>>, phone, <<>> >>,
         << <<>>, <<>>, keyword >>, << name, phone, keyword >>}

TierRules(tier) ==
    {[by_name |-> lists[1], by_phone |-> lists[2], by_keywords |-> lists[3],
      settings |-> StockSettings(tier)] : lists \in RuleLists}

DefaultSettingsBlocks ==
    {EmptyDict} \cup
    {[uncategorized_contacts |-> d] : d \in {"main_contacts", "not_important", "vip"}}

Rulesets ==
    {[contact_tiers |-> [main_contacts |-> m, time_pass_contacts |-> c,
                         not_important |-> l],
      default_settings |-> d] :
        m \in TierRules("main_contacts"), c \in TierRules("time_pass_contacts"),
        l \in TierRules("not_important"), d \in DefaultSettingsBlocks}

\* a manager whose load has completed on a file holding one of the rulesets
InitResolve ==
    /\ contact_tiers \in Rulesets
    /\ config_file = JsonFile(contact_tiers)
    /\ message_templates = default_templates
    /\ templates_file = JsonFile(default_templates)
    /\ contact_cache = EmptyDict
    /\ load_task = [state |-> "done", found |-> "json"]
    /\ last_call = NoCall
    /\ ret = NoReturn
    /\ calls = 0
    /\ threads = [t \in Threads |-> IdleThread]
    /\ _skip_list = EmptyDict
    /\ skip_list_file = AbsentFile

NextResolve ==
    \E n \in QueryNames, p \in QueryPhones : CategorizeContact(n, p)

SpecResolve == InitResolve /\ [][NextResolve]_vars

(***************************************************************************)
(* Template lookups on a manager whose load has completed on a ruleset     *)
(* with a valid default tier and on stock or hand-edited templates.        *)
(***************************************************************************)
InitTemplates ==
    \E ruleset \in {default_config, RulesetCustom},
       file \in {AbsentFile, JsonFile(TemplatesCustom)} :
        LET templates == load_file(file, EmptyDict, default_templates, "ok")
        IN  /\ contact_tiers = ruleset
            /\ config_file = JsonFile(ruleset)
            /\ message_templates = templates.data
            /\ templates_file = templates.file
            /\ contact_cache = EmptyDict
            /\ load_task = [state |-> "done", found |-> "json"]
            /\ last_call = NoCall
            /\ ret = NoReturn
            /\ calls = 0
            /\ threads = [t \in Threads |-> IdleThread]
            /\ _skip_list = EmptyDict
            /\ skip_list_file = AbsentFile

NextTemplates ==
    \E n \in Names, p \in Phones, type \in TemplateTypes : GetReplyTemplate(n, p, type)

SpecTemplates == InitTemplates /\ [][NextTemplates]_vars

(***************************************************************************)
(* sanitize_phone_number on its own, applied to every string of up to      *)
(* MaxPhoneLen characters drawn from '+', two digits and a separator, and  *)
(* to None.                                                                *)
(***************************************************************************)
PhoneChars == {"+", "1", "5", "-"}

PhoneStrings == UNION {[1..n -> PhoneChars] : n \in 0..MaxPhoneLen} \cup {None}

\* a call of helpers.sanitize_phone_number
SanitizePhoneNumber(phone) ==
    /\ calls < MaxCalls
    /\ calls' = calls + 1
    /\ last_call' = Call("sanitize_phone_number", <<>>, phone, "", "")
    /\ ret' = Returned("str", sanitize_phone_number(phone))
    /\ UNCHANGED <<threads, _skip_list, skip_list_file>>
    /\ UNCHANGED <<contact_tiers, message_templates, contact_cache, config_file,
                   templates_file, load_task>>

InitPhone ==
    /\ contact_tiers = EmptyDict
    /\ message_templates = EmptyDict
    /\ contact_cache = EmptyDict
    /\ config_file = AbsentFile
    /\ templates_file = AbsentFile
    /\ load_task = [state |-> "scheduled", found |-> ""]
    /\ last_call = NoCall
    /\ ret = NoReturn
    /\ calls = 0
    /\ threads = [t \in Threads |-> IdleThread]
    /\ _skip_list = EmptyDict
    /\ skip_list_file = AbsentFile

NextPhone == \E phone \in PhoneStrings : SanitizePhoneNumber(phone)

SpecPhone == InitPhone /\ [][NextPhone]_vars

(***************************************************************************)
(* add_contact_to_tier and remove_contact_from_tier called from threads.   *)
(* The manager holds no lock, so a thread switch can fall between any two  *)
(* statements of a call: each action below is one statement of the call a  *)
(* thread is inside of.  (Calls made as tasks of one event loop run to     *)
(* their end without a switch: the one await of a call, on                 *)
(* _save_contact_tiers, never suspends.)                                   *)
(***************************************************************************)
ThreadOps == {"add_contact_to_tier", "remove_contact_from_tier"}

ThreadNames == { <<"a", "l">> }

ThreadPhones == { None, <<"+", "1", "-", "5">> }

ThreadTiers == {"main_contacts", "not_important"}

\* the ruleset dict with `lst` stored under contact_tiers[tier][key]
WithList(tier, key, lst) == WithTierData(tier, Put(TierData(tier), key, lst))

\* a thread enters add_contact_to_tier or remove_contact_from_tier
BeginCall(t, op, contact_name, phone_number, tier) ==
    /\ threads[t].pc = "idle"
    /\ threads' = [threads EXCEPT ![t] =
                      [pc |-> "test_name", op |-> op, name |-> contact_name,
                       phone |-> phone_number, tier |-> tier, found |-> FALSE,
                       ret |-> NoReturn]]
    /\ UNCHANGED <<contact_tiers, message_templates, contact_cache, config_file,
                   templates_file, load_task, last_call, ret, calls,
                   _skip_list, skip_list_file>>

\* `contact_name not in names_list` / `contact_name in names_list`; on the
\* way add_contact_to_tier creates the dicts and the list with setdefault
TestName(t) ==
    LET c == threads[t]
        names_list == Get(TierData(c.tier), "by_name", <<>>)
    IN  /\ c.pc = "test_name"
        /\ threads' = [threads EXCEPT ![t].pc = "update_name",
                                      ![t].found = InList(c.name, names_list)]
        /\ contact_tiers' = IF c.op = "add_contact_to_tier"
                            THEN WithList(c.tier, "by_name", names_list)
                            ELSE contact_tiers
        /\ UNCHANGED <<message_templates, contact_cache, config_file,
                       templates_file, load_task, last_call, ret, calls,
                       _skip_list, skip_list_file>>

\* `names_list.append(contact_name)` / `names_list.remove(contact_name)`,
\* run when the test said so; list.remove raises ValueError when the entry
\* is gone, which the call re-raises as ConfigurationError
UpdateName(t) ==
    LET c == threads[t]
        names_list == Get(TierData(c.tier), "by_name", <<>>)
        acts == IF c.op = "add_contact_to_tier" THEN ~c.found ELSE c.found
        next_pc == IF Truthy(c.phone) THEN "test_phone" ELSE "save_open"
    IN  /\ c.pc = "update_name"
        /\ IF ~acts
           THEN /\ threads' = [threads EXCEPT ![t].pc = next_pc]
                /\ UNCHANGED contact_tiers
           ELSE IF c.op = "add_contact_to_tier"
           THEN /\ threads' = [threads EXCEPT ![t].pc = next_pc]
                /\ contact_tiers' = WithList(c.tier, "by_name",
                                             Append(names_list, c.name))
           ELSE IF InList(c.name, names_list)
           THEN /\ threads' = [threads EXCEPT ![t].pc = next_pc]
                /\ contact_tiers' = WithList(c.tier, "by_name",
                                             list_remove(names_list, c.name))
           ELSE /\ threads' = [threads EXCEPT ![t].pc = "done",
                                   ![t].ret = Raised("ConfigurationError")]
                /\ UNCHANGED contact_tiers
        /\ UNCHANGED <<message_templates, contact_cache, config_file,
                       templates_file, load_task, last_call, ret, calls,
                       _skip_list, skip_list_file>>

\* `clean_phone not in phones_list` / `clean_phone in phones_list`
TestPhone(t) ==
    LET c == threads[t]
        phones_list == Get(TierData(c.tier), "by_phone", <<>>)
    IN  /\ c.pc = "test_phone"
        /\ threads' = [threads EXCEPT ![t].pc = "update_phone",
                          ![t].found = InList(sanitize_phone_number(c.phone),
                                              phones_list)]
        /\ contact_tiers' = IF c.op = "add_contact_to_tier"
                            THEN WithList(c.tier, "by_phone", phones_list)
                            ELSE contact_tiers
        /\ UNCHANGED <<message_templates, contact_cache, config_file,
                       templates_file, load_task, last_call, ret, calls,
                       _skip_list, skip_list_file>>

\* `phones_list.append(clean_phone)` / `phones_list.remove(clean_phone)`
UpdatePhone(t) ==
    LET c == threads[t]
        phones_list == Get(TierData(c.tier), "by_phone", <<>>)
        clean_phone == sanitize_phone_number(c.phone)
        acts == IF c.op = "add_contact_to_tier" THEN ~c.found ELSE c.found
    IN  /\ c.pc = "update_phone"
        /\ IF ~acts
           THEN /\ threads' = [threads EXCEPT ![t].pc = "save_open"]
                /\ UNCHANGED contact_tiers
           ELSE IF c.op = "add_contact_to_tier"
           THEN /\ threads' = [threads EXCEPT ![t].pc = "save_open"]
                /\ contact_tiers' = WithList(c.tier, "by_phone",
                                             Append(phones_list, clean_phone))
           ELSE IF InList(clean_phone, phones_list)
           THEN /\ threads' = [threads EXCEPT ![t].pc = "save_open"]
                /\ contact_tiers' = WithList(c.tier, "by_phone",
                                             list_remove(phones_list, clean_phone))
           ELSE /\ threads' = [threads EXCEPT ![t].pc = "done",
                                   ![t].ret = Raised("ConfigurationError")]
                /\ UNCHANGED contact_tiers
        /\ UNCHANGED <<message_templates, contact_cache, config_file,
                       templates_file, load_task, last_call, ret, calls,
                       _skip_list, skip_list_file>>

\* _save_contact_tiers: `open(self.config_path, 'w')` empties the file
SaveOpen(t) ==
    /\ threads[t].pc = "save_open"
    /\ threads' = [threads EXCEPT ![t].pc = "save_dump"]
    /\ config_file' = GarbageFile
    /\ UNCHANGED <<contact_tiers, message_templates, contact_cache,
                   templates_file, load_task, last_call, ret, calls,
                   _skip_list, skip_list_file>>

\* _save_contact_tiers: json.dump and the close.  The text goes to the
\* start of the file; when another thread wrote its own text since this
\* thread's open, what is left is this thread's document or, its text
\* being the shorter one, that document followed by the rest of the other
\* text, which json.load rejects
SaveDump(t) ==
    /\ threads[t].pc = "save_dump"
    /\ threads' = [threads EXCEPT ![t].pc = "invalidate"]
    /\ \/ config_file' = JsonFile(contact_tiers)
       \/ /\ config_file.state = "json"
          /\ config_file' = GarbageFile
    /\ UNCHANGED <<contact_tiers, message_templates, contact_cache,
                   templates_file, load_task, last_call, ret, calls,
                   _skip_list, skip_list_file>>

\* `del self.contact_cache[cache_key]` when the key is there; return True
Invalidate(t) ==
    /\ threads[t].pc = "invalidate"
    /\ threads' = [threads EXCEPT ![t].pc = "done",
                                  ![t].ret = Returned("bool", TRUE)]
    /\ contact_cache' = cache_without(threads[t].name, threads[t].phone)
    /\ UNCHANGED <<contact_tiers, message_templates, config_file,
                   templates_file, load_task, last_call, ret, calls,
                   _skip_list, skip_list_file>>

\* a manager whose load has completed on the hand-edited ruleset
InitThreads ==
    /\ contact_tiers = RulesetCustom
    /\ config_file = JsonFile(RulesetCustom)
    /\ message_templates = default_templates
    /\ templates_file = JsonFile(default_templates)
    /\ contact_cache = EmptyDict
    /\ load_task = [state |-> "done", found |-> "json"]
    /\ last_call = NoCall
    /\ ret = NoReturn
    /\ calls = 0
    /\ threads = [t \in Threads |-> IdleThread]
    /\ _skip_list = EmptyDict
    /\ skip_list_file = AbsentFile

NextThreads ==
    \/ \E t \in Threads, op \in ThreadOps, n \in ThreadNames,
          p \in ThreadPhones, tier \in ThreadTiers : BeginCall(t, op, n, p, tier)
    \/ \E t \in Threads : TestName(t)
    \/ \E t \in Threads : UpdateName(t)
    \/ \E t \in Threads : TestPhone(t)
    \/ \E t \in Threads : UpdatePhone(t)
    \/ \E t \in Threads : SaveOpen(t)
    \/ \E t \in Threads : SaveDump(t)
    \/ \E t \in Threads : Invalidate(t)
    \/ \E n \in ThreadNames, p \in ThreadPhones : CategorizeContact(n, p)

SpecThreads == InitThreads /\ [][NextThreads]_vars

(***************************************************************************)
(* ConfigManager: the skip list, its validation and its file.              *)
(***************************************************************************)
\* the characters re.sub(r'[\s\-\(\)\.]', '', phone) drops
PhoneSeparators == Whitespace \cup {"-", "(", ")", "."}

\* validators.validate_phone_number: after the separators are dropped the
\* phone matches ^\+?[1-9]\d{6,14}$
validate_phone_number(phone) ==
    LET cleaned_phone == SelectSeq(phone, LAMBDA c : c \notin PhoneSeparators)
        digits == IF cleaned_phone # <<>> /\ cleaned_phone[1] = "+"
                  THEN Tail(cleaned_phone) ELSE cleaned_phone
    IN  /\ Truthy(phone)
        /\ Len(digits) >= 7
        /\ Len(digits) <= 15
        /\ digits[1] \in Digits \ {"0"}
        /\ \A i \in 1..Len(digits) : digits[i] \in Digits

\* validators.validate_skip_list: (is_valid, errors)
validate_skip_list(skip_list_data) ==
    LET skip_contacts == Get(skip_list_data, "skip_contacts", EmptyDict)
        phone_list == Get(skip_contacts, "by_phone", <<>>)
        name_list == Get(skip_contacts, "by_name", <<>>)
        no_section == IF "skip_contacts" \in DOMAIN skip_list_data THEN <<>>
                      ELSE << [error |-> "Missing 'skip_contacts' section",
                               about |-> <<>>] >>
        bad_phones == SelectSeq(phone_list, LAMBDA phone : ~validate_phone_number(phone))
        phone_errors == [i \in DOMAIN bad_phones |->
                            [error |-> "Invalid phone number in skip list",
                             about |-> bad_phones[i]]]
        name_errors == IF \E i \in DOMAIN name_list : str_strip(name_list[i]) = <<>>
                       THEN << [error |-> "Invalid names in skip list - must be non-empty strings",
                                about |-> <<>>] >>
                       ELSE <<>>
        errors == no_section \o phone_errors \o name_errors
    IN  [is_valid |-> Len(errors) = 0, errors |-> errors]

\* _load_skip_list: the skip list written when the file does not exist
default_skip_list ==
    [skip_contacts |-> [by_name |-> <<>>, by_phone |-> <<>>, by_keywords |-> <<>>],
     skip_groups |-> <<>>,
     skip_conditions |-> [skip_if_contains |-> <<"urgent", "emergency">>,
                          skip_business_hours |-> FALSE,
                          skip_weekends |-> FALSE]]

\* a list of strings as a JSON array
dump_list(lst) == JsonArray([i \in DOMAIN lst |-> JsonString(lst[i])])

\* json.dump(obj, f) for a skip list: skip_contacts holds lists of strings,
\* skip_groups is a list of strings, skip_conditions holds one list of
\* strings and booleans
json_dump_skip_list(obj) ==
    JsonObject([k \in DOMAIN obj |->
        CASE k = "skip_contacts" ->
                JsonObject([l \in DOMAIN obj[k] |-> dump_list(obj[k][l])])
          [] k = "skip_groups" -> dump_list(obj[k])
          [] OTHER ->
                JsonObject([c \in DOMAIN obj[k] |->
                    IF c = "skip_if_contains" THEN dump_list(obj[k][c])
                    ELSE JsonBoolean(obj[k][c])])])

\* the skip-list file json.dump(d, f) leaves behind
SkipListFile(d) == [state |-> "json", data |-> json_dump_skip_list(d)]

\* no file, and no data directory to create it in
NoDirFile == [state |-> "no_dir", data |-> EmptyDict]

\* `with open(self.skip_list_path, 'w') as f: json.dump(obj, f)`: the open
\* raises FileNotFoundError when the directory is missing; otherwise the
\* write has one of the WriteOutcomes
write_skip_list(file, obj, write) ==
    CASE file.state = "no_dir" -> [file |-> file, raised |-> TRUE]
      [] write = "ok" -> [file |-> SkipListFile(obj), raised |-> FALSE]
      [] write = "open_fails" -> [file |-> file, raised |-> TRUE]
      [] OTHER -> [file |-> GarbageFile, raised |-> TRUE]

\* skip lists passed to update_skip_list and found on disk: two that
\* validate_skip_list accepts and three it rejects (no skip_contacts
\* section, a phone that is no phone number, a blank name)
SkipListAl ==
    [skip_contacts |-> [by_name |-> << <<"A", "l">> >>, by_phone |-> <<>>,
                        by_keywords |-> <<>>],
     skip_groups |-> <<>>]

SkipListPhone ==
    [skip_contacts |-> [by_name |-> <<>>,
                        by_phone |-> << <<"+", "1", "5", "5", "5", "0", "1", "0", "0">> >>,
                        by_keywords |-> << <<"s", "p">> >>]]

SkipListNoSection == [skip_groups |-> <<>>]

SkipListBadPhone == [skip_contacts |-> [by_phone |-> << <<"-">> >>]]

SkipListBlankName == [skip_contacts |-> [by_name |-> << <<" ">> >>]]

SkipLists ==
    {SkipListAl, SkipListPhone, SkipListNoSection, SkipListBadPhone, SkipListBlankName}

SkipListFiles ==
    {NoDirFile, AbsentFile, GarbageFile, SkipListFile(SkipListAl),
     SkipListFile(SkipListBadPhone)}

\* ConfigManager.is_contact_skipped
is_contact_skipped(contact_name, phone_number) ==
    LET skip_contacts == Get(_skip_list, "skip_contacts", EmptyDict)
        skip_names == Get(skip_contacts, "by_name", <<>>)
        skip_phones == Get(skip_contacts, "by_phone", <<>>)
        skip_keywords == Get(skip_contacts, "by_keywords", <<>>)
    IN  \/ \E i \in DOMAIN skip_names : str_lower(skip_names[i]) = str_lower(contact_name)
        \/ Truthy(phone_number) /\ InList(phone_number, skip_phones)
        \/ \E i \in DOMAIN skip_keywords :
              str_contains(str_lower(contact_name), str_lower(skip_keywords[i]))

\* ConfigManager.update_skip_list
UpdateSkipList(new_skip_list, write) ==
    LET checked == validate_skip_list(new_skip_list)
        written == write_skip_list(skip_list_file, new_skip_list, write)
    IN  /\ calls < MaxCalls
        /\ calls' = calls + 1
        /\ last_call' = ("new_skip_list" :> new_skip_list)
                        @@ Call("update_skip_list", <<>>, None, "", "")
        /\ IF ~checked.is_valid
           THEN /\ ret' = Raised("ConfigurationError")
                /\ UNCHANGED <<_skip_list, skip_list_file>>
           ELSE /\ _skip_list' = new_skip_list
                /\ skip_list_file' = written.file
                /\ ret' = IF written.raised THEN Raised("OSError")
                          ELSE Returned("None", FALSE)
        /\ UNCHANGED <<contact_tiers, message_templates, contact_cache, config_file,
                       templates_file, load_task, threads>>

\* ConfigManager._load_skip_list: a missing file is created with the
\* default skip list (the directory too); a file that is there is read and
\* then validated, after self._skip_list was assigned
LoadSkipList(write) ==
    LET creates == skip_list_file.state \in {"no_dir", "absent"}
        written == write_skip_list(AbsentFile, default_skip_list, write)
        loaded == json_load(skip_list_file.data)
    IN  /\ calls < MaxCalls
        /\ calls' = calls + 1
        /\ last_call' = Call("_load_skip_list", <<>>, None, "", "")
        /\ IF creates
           THEN /\ skip_list_file' = written.file
                /\ _skip_list' = IF written.raised THEN _skip_list ELSE default_skip_list
                /\ ret' = IF written.raised THEN Raised("OSError")
                          ELSE Returned("None", FALSE)
           ELSE IF skip_list_file.state = "garbage"
           THEN /\ ret' = Raised("JSONDecodeError")
                /\ UNCHANGED <<_skip_list, skip_list_file>>
           ELSE /\ _skip_list' = loaded
                /\ ret' = IF validate_skip_list(loaded).is_valid
                          THEN Returned("None", FALSE)
                          ELSE Raised("ConfigurationError")
                /\ UNCHANGED skip_list_file
        /\ UNCHANGED <<contact_tiers, message_templates, contact_cache, config_file,
                       templates_file, load_task, threads>>

\* ConfigManager.get_skip_list
GetSkipList ==
    /\ calls < MaxCalls
    /\ calls' = calls + 1
    /\ last_call' = Call("get_skip_list", <<>>, None, "", "")
    /\ ret' = Returned("dict", _skip_list)
    /\ UNCHANGED <<contact_tiers, message_templates, contact_cache, config_file,
                   templates_file, load_task, threads, _skip_list, skip_list_file>>

\* a call of ConfigManager.is_contact_skipped
IsContactSkipped(contact_name, phone_number) ==
    /\ calls < MaxCalls
    /\ calls' = calls + 1
    /\ last_call' = Call("is_contact_skipped", contact_name, phone_number, "", "")
    /\ ret' = Returned("bool", is_contact_skipped(contact_name, phone_number))
    /\ UNCHANGED <<contact_tiers, message_templates, contact_cache, config_file,
                   templates_file, load_task, threads, _skip_list, skip_list_file>>

\* a ConfigManager right after construction: self._skip_list = {}
InitSkipList ==
    /\ contact_tiers = EmptyDict
    /\ message_templates = EmptyDict
    /\ contact_cache = EmptyDict
    /\ config_file = AbsentFile
    /\ templates_file = AbsentFile
    /\ load_task = [state |-> "scheduled", found |-> ""]
    /\ last_call = NoCall
    /\ ret = NoReturn
    /\ calls = 0
    /\ threads = [t \in Threads |-> IdleThread]
    /\ _skip_list = EmptyDict
    /\ skip_list_file \in SkipListFiles

NextSkipList ==
    \/ \E l \in SkipLists, w \in WriteOutcomes : UpdateSkipList(l, w)
    \/ \E w \in WriteOutcomes : LoadSkipList(w)
    \/ GetSkipList
    \/ \E n \in Names, p \in Phones : IsContactSkipped(n, p)

SpecSkipList == InitSkipList /\ [][NextSkipList]_vars

(***************************************************************************)
(* Vocabulary of the properties.                                           *)
(***************************************************************************)
\* precedence of the tiers: MAIN > CASUAL (time_pass) > NOT_IMPORTANT
Rank == [main_contacts |-> 1, time_pass_contacts |-> 2, not_important |-> 3]

NormName(name) == str_strip(str_lower(name))

NormPhone(phone) == sanitize_phone_number(phone)

ListedNames(tier) == {NormName(x) : x \in Range(Get(TierData(tier), "by_name", <<>>))}

ListedPhones(tier) == {NormPhone(x) : x \in Range(Get(TierData(tier), "by_phone", <<>>))}

ListedKeywords(tier) ==
    {str_lower(k) : k \in Range(Get(TierData(tier), "by_keywords", <<>>))}

\* the tier matches the contact by name, by (non-empty) phone or by keyword
TierMatches(tier, name, phone) ==
    \/ NormName(name) \in ListedNames(tier)
    \/ NormPhone(phone) # <<>> /\ NormPhone(phone) \in ListedPhones(tier)
    \/ \E k \in ListedKeywords(tier) : str_contains(NormName(name), k)

MatchingTiers(name, phone) == {t \in ContactTier : TierMatches(t, name, phone)}

NoHigherTierMatches(tier, name, phone) ==
    \A h \in ContactTier : Rank[h] < Rank[tier] => ~TierMatches(h, name, phone)

\* the call returned `tier` or a tier of higher precedence
AtLeast(result, tier) ==
    result.status = "returned" /\ Rank[result.value.tier] <= Rank[tier]

Categorized == last_call.op = "categorize_contact"

AddReturned == last_call.op = "add_contact_to_tier" /\ ret.status = "returned"

\* this step is a public call (last_call' describes it)
CallStep == calls' = calls + 1

\* this step is the run of the load task
LoadStep == load_task.state = "scheduled" /\ load_task'.state # "scheduled"

(***************************************************************************)
(* Properties of resolution (checked under SpecResolve).                   *)
(***************************************************************************)
\* C1: categorize_contact returns the highest-precedence tier among the
\* tiers that match the contact by name, phone or keyword; a contact whose
\* normalized name is in MAIN's by_name resolves to MAIN whatever the other
\* tiers list.
C1_Precedence ==
    Categorized =>
        LET n == last_call.name
            p == last_call.phone
            matching == MatchingTiers(n, p)
        IN  /\ matching # {} =>
                /\ ret.status = "returned"
                /\ ret.value.tier \in matching
                /\ \A t \in matching : Rank[ret.value.tier] <= Rank[t]
            /\ NormName(n) \in ListedNames("main_contacts") =>
                /\ ret.status = "returned"
                /\ ret.value.tier = "main_contacts"

\* a contact listed by name in all three tiers was resolved to MAIN
C1_Witness ==
    /\ Categorized
    /\ \A t \in ContactTier : NormName(last_call.name) \in ListedNames(t)
    /\ ret.status = "returned"
    /\ ret.value.tier = "main_contacts"

\* C2: a contact that matches no tier gets the tier configured as
\* default_settings.uncategorized_contacts, with that tier's settings block.
C2_DefaultTier ==
    LET configured == Get(Get(contact_tiers, "default_settings", EmptyDict),
                          "uncategorized_contacts", "")
    IN  (/\ Categorized
         /\ MatchingTiers(last_call.name, last_call.phone) = {}
         /\ configured \in ContactTier)
        => /\ ret.status = "returned"
           /\ ret.value.tier = configured
           /\ ret.value.settings = contact_tiers.contact_tiers[configured].settings

\* an unmatched contact was resolved to a default tier other than
\* not_important
C2_Witness ==
    /\ Categorized
    /\ MatchingTiers(last_call.name, last_call.phone) = {}
    /\ contact_tiers.default_settings = [uncategorized_contacts |-> "main_contacts"]
    /\ ret.status = "returned"
    /\ ret.value.tier = "main_contacts"
    /\ ret.value.settings.reply_mode = "informative_ai"

\* C9: categorize_contact never raises, whatever the loaded ruleset (its
\* default tier included) and whatever the name and phone.
C9_NeverRaises == Categorized => ret.status = "returned"

(***************************************************************************)
(* Properties of the manager (checked under Spec).                         *)
(***************************************************************************)
\* C3: after add_contact_to_tier(n, p, t) returned, for a contact no
\* higher-precedence tier matches, a lookup with the same name and phone
\* reports tier t: categorize_contact, get_contact_info and the should_*
\* lookups (which report t's settings), whatever was cached before.
C3_AddIsVisible ==
    LET n == last_call.name
        p == last_call.phone
        t == last_call.tier
        settings == _get_tier_settings(t)
    IN  (AddReturned /\ NoHigherTierMatches(t, n, p)) =>
            /\ categorize_contact(n, p).status = "returned"
            /\ categorize_contact(n, p).value.tier = t
            /\ get_contact_info(n, p).status = "returned"
            /\ get_contact_info(n, p).value.tier = t
            /\ should_reply_to_contact(n, p) = Returned("bool", settings.reply_mode # "none")
            /\ should_play_notification(n, p) = Returned("bool", settings.play_sound)
            /\ should_open_and_read(n, p) = Returned("bool", settings.open_and_read)

\* an add moved a contact for which another tier was cached, and the
\* lookup now reports the new tier
C3_Witness ==
    /\ AddReturned
    /\ last_call.cached \notin {"", last_call.tier}
    /\ NoHigherTierMatches(last_call.tier, last_call.name, last_call.phone)
    /\ get_contact_info(last_call.name, last_call.phone).value.tier = last_call.tier

\* C4: after any sequence of lookups, adds and removes (with successful
\* saves) on a loaded ruleset, every cache entry carries the tier and
\* settings categorize_contact returns for the entry's name and phone
\* against the current ruleset.
C4_CacheCoherent ==
    \A k \in DOMAIN contact_cache :
        LET entry == contact_cache[k]
            now == categorize_contact(entry.name, entry.phone)
        IN  /\ now.status = "returned"
            /\ now.value.tier = entry.tier
            /\ now.value.settings = entry.settings

\* C5: add_contact_to_tier called a second time in succession with the same
\* arguments leaves the ruleset (every by_name and by_phone list) as the
\* first call left it.
C5_AddIdempotent ==
    [][(CallStep /\ last_call'.op = "add_contact_to_tier" /\ last_call'.repeat)
          => contact_tiers' = contact_tiers]_vars

\* the same add, with a phone number, was made twice in succession
C5_Witness ==
    /\ AddReturned
    /\ last_call.repeat
    /\ Truthy(last_call.phone)
    /\ InList(last_call.name, TierData(last_call.tier).by_name)
    /\ InList(NormPhone(last_call.phone), TierData(last_call.tier).by_phone)

\* after the add, every name with the same normalized form resolves to the
\* added tier or a higher one, whatever the phone
SameNameResolves ==
    \A n \in QueryNames, p \in QueryPhones :
        NormName(n) = NormName(last_call.name) =>
            AtLeast(categorize_contact(n, p), last_call.tier)

\* after the add, every phone with the same normalized form resolves to
\* the added tier or a higher one, whatever the name
SamePhoneResolves ==
    \A n \in QueryNames, p \in QueryPhones :
        NormPhone(p) = NormPhone(last_call.phone) =>
            AtLeast(categorize_contact(n, p), last_call.tier)

\* C6 as stated: after add_contact_to_tier(n, p, t) returned, every name
\* normalizing like n resolves to t or higher and, when p is non-empty,
\* so does every phone normalizing like p, whatever the name.
C6_AsStated ==
    AddReturned =>
        /\ SameNameResolves
        /\ Truthy(last_call.phone) => SamePhoneResolves

\* C6 as amended: the phone part holds when the normalized form of p is
\* non-empty, that is when p holds a digit or a '+'.
C6_AddMatchesNormalized ==
    AddReturned =>
        /\ SameNameResolves
        /\ NormPhone(last_call.phone) # <<>> => SamePhoneResolves

\* "al" was added to the casual tier with "+1-5", and "spam" with "+15"
\* resolves to the casual tier by phone
C6_Witness ==
    /\ AddReturned
    /\ last_call.tier = "time_pass_contacts"
    /\ last_call.phone = <<"+", "1", "-", "5">>
    /\ categorize_contact(<<"s", "p", "a", "m">>, <<"+", "1", "5">>).status = "returned"
    /\ categorize_contact(<<"s", "p", "a", "m">>, <<"+", "1", "5">>).value.tier
           = "time_pass_contacts"
    /\ categorize_contact(<<"A", "l", " ">>, None).value.tier = "time_pass_contacts"

\* the name is an entry of the tier's by_name, or the phone (as given or
\* sanitized) is an entry of its by_phone
PresentInTier(name, phone, tier) ==
    \/ name \in Range(Get(TierData(tier), "by_name", <<>>))
    \/ /\ Truthy(phone)
       /\ {phone, NormPhone(phone)} \cap Range(Get(TierData(tier), "by_phone", <<>>)) # {}

\* C7: remove_contact_from_tier for a contact present in neither by_name
\* nor by_phone of the tier returns normally and leaves the whole ruleset
\* (lists, keywords, settings, default tier) unchanged.
C7_RemoveAbsent ==
    [][(/\ CallStep
        /\ last_call'.op = "remove_contact_from_tier"
        /\ ~PresentInTier(last_call'.name, last_call'.phone, last_call'.tier))
          => (ret'.status = "returned" /\ contact_tiers' = contact_tiers)]_vars

\* the only call made on the freshly loaded default ruleset was a remove,
\* and the ruleset is still the default one
C7_Witness ==
    /\ last_call.op = "remove_contact_from_tier"
    /\ Truthy(last_call.phone)
    /\ calls = 1
    /\ ret.status = "returned"
    /\ contact_tiers = default_config

\* C8: at every point of a sequence of lookups and mutations on a loaded
\* ruleset, should_reply_to_contact returns true exactly when the settings
\* categorize_contact resolves against the current ruleset have reply_mode
\* other than "none".
C8_ReplyFollowsRuleset ==
    \A n \in Names, p \in Phones :
        LET now == categorize_contact(n, p)
        IN  now.status = "returned" =>
                should_reply_to_contact(n, p)
                    = Returned("bool", now.value.settings.reply_mode # "none")

\* the documented default ruleset: three tiers with stock settings and
\* empty lists, not_important seeded with promotion/spam/offer, default
\* tier not_important
IsDocumentedDefault(ruleset) ==
    /\ DOMAIN ruleset.contact_tiers = ContactTier
    /\ \A t \in ContactTier :
        /\ ruleset.contact_tiers[t].by_name = <<>>
        /\ ruleset.contact_tiers[t].by_phone = <<>>
    /\ ruleset.contact_tiers.main_contacts.settings =
           [open_and_read |-> TRUE, play_sound |-> TRUE,
            reply_mode |-> "informative_ai", mark_as_read |-> TRUE,
            priority_level |-> "high"]
    /\ ruleset.contact_tiers.time_pass_contacts.settings =
           [open_and_read |-> FALSE, play_sound |-> FALSE,
            reply_mode |-> "template_basic", mark_as_read |-> TRUE,
            priority_level |-> "medium"]
    /\ ruleset.contact_tiers.not_important.settings =
           [open_and_read |-> FALSE, play_sound |-> FALSE,
            reply_mode |-> "none", mark_as_read |-> FALSE,
            priority_level |-> "low"]
    /\ ruleset.contact_tiers.not_important.by_keywords =
           << <<"p", "r", "o", "m", "o", "t", "i", "o", "n">>,
              <<"s", "p", "a", "m">>, <<"o", "f", "f", "e", "r">> >>
    /\ ruleset.default_settings.uncategorized_contacts = "not_important"

\* C10: a load that finds no ruleset file builds the documented default
\* ruleset, writes it to the file and keeps it in memory; a load that finds
\* a (parseable) file takes the file's content and leaves the file alone.
C10_Load ==
    [][LoadStep =>
          /\ config_file.state = "absent" =>
                /\ IsDocumentedDefault(contact_tiers')
                /\ config_file' = JsonFile(contact_tiers')
          /\ config_file.state = "json" =>
                /\ contact_tiers' = json_load(config_file.data)
                /\ config_file' = config_file]_vars

\* the load found no file and left the default ruleset in memory and on disk
C10_Witness ==
    /\ load_task = [state |-> "done", found |-> "absent"]
    /\ calls = 0
    /\ IsDocumentedDefault(contact_tiers)
    /\ config_file = JsonFile(contact_tiers)

(***************************************************************************)
(* Properties of the ruleset store (checked under Spec and SpecStore).     *)
(***************************************************************************)
\* the settings fields every tier must carry (the ContactSettings fields)
RequiredSettings ==
    {"open_and_read", "play_sound", "reply_mode", "mark_as_read", "priority_level"}

\* all three tier keys are present and every tier has a settings block
\* with every required field
IsStructurallyValid(ruleset) ==
    /\ "contact_tiers" \in DOMAIN ruleset
    /\ ContactTier \subseteq DOMAIN ruleset.contact_tiers
    /\ \A t \in ContactTier :
        /\ "settings" \in DOMAIN ruleset.contact_tiers[t]
        /\ RequiredSettings \subseteq DOMAIN ruleset.contact_tiers[t].settings

\* C11: a load that finds a ruleset file whose content is structurally
\* invalid (a tier key or a required settings field is missing) fails; it
\* does not complete with that content as the in-memory ruleset.
C11_InvalidFileRejected ==
    [][(/\ LoadStep
        /\ config_file.state = "json"
        /\ ~IsStructurallyValid(json_load(config_file.data)))
          => (load_task'.state = "failed" /\ contact_tiers' = contact_tiers)]_vars

\* this step is a call of _save_contact_tiers that returned
SaveStep ==
    CallStep /\ last_call'.op = "_save_contact_tiers" /\ ret'.status = "returned"

\* this step is a call of _load_contact_tiers right after a save that returned
ReloadAfterSaveStep ==
    /\ CallStep
    /\ last_call'.op = "_load_contact_tiers"
    /\ last_call'.after = "_save_contact_tiers"

\* C12: a save of an unmutated ruleset (the memory holds what the file
\* denotes) leaves the content of the file as it was, and a load that
\* follows a save yields the ruleset the memory held, which is the ruleset
\* of the first load when nothing was mutated in between.
C12_RoundTrip ==
    [][/\ (/\ SaveStep
           /\ config_file.state = "json"
           /\ json_load(config_file.data) = contact_tiers)
          => /\ config_file'.state = "json"
             /\ json_load(config_file'.data) = json_load(config_file.data)
       /\ ReloadAfterSaveStep
          => (ret'.status = "returned" /\ contact_tiers' = contact_tiers)]_vars

\* the hand-edited ruleset was loaded, saved and loaded again
C12_Witness ==
    /\ load_task = [state |-> "done", found |-> "json"]
    /\ calls = 2
    /\ last_call.op = "_load_contact_tiers"
    /\ last_call.after = "_save_contact_tiers"
    /\ ret.status = "returned"
    /\ contact_tiers = RulesetCustom
    /\ json_load(config_file.data) = RulesetCustom

\* this step is a call of add_contact_to_tier or remove_contact_from_tier
MutateStep ==
    CallStep /\ last_call'.op \in {"add_contact_to_tier", "remove_contact_from_tier"}

\* the list a ruleset holds under a tier ([] when the tier or list is missing)
ListOf(ruleset, tier, key) ==
    Get(Get(Get(ruleset, "contact_tiers", EmptyDict), tier, EmptyDict), key, <<>>)

\* number of entries of the list equal to x
Count(x, lst) == Cardinality({i \in DOMAIN lst : lst[i] = x})

\* the list lost one entry equal to x if it had one, and nothing else
OneLess(x, before, after) ==
    /\ Count(x, after) = (IF Count(x, before) = 0 THEN 0 ELSE Count(x, before) - 1)
    /\ Len(after) = (IF Count(x, before) = 0 THEN Len(before) ELSE Len(before) - 1)

\* C13: an add_contact_to_tier or remove_contact_from_tier call whose save
\* fails raises ConfigurationError; the in-memory ruleset holds the
\* mutation (the name and the sanitized phone are listed after an add, one
\* occurrence of each is gone after a remove) and the file has not been
\* written with it: it is as it was or unreadable, so a file that was in
\* step with the memory no longer is once the mutation changed the ruleset.
C13_FailedSaveDiverges ==
    [][(MutateStep /\ ret'.status = "raised") =>
        LET n == last_call'.name
            p == last_call'.phone
            t == last_call'.tier
            names == ListOf(contact_tiers', t, "by_name")
            phones == ListOf(contact_tiers', t, "by_phone")
        IN  /\ ret'.exc = "ConfigurationError"
            /\ last_call'.op = "add_contact_to_tier" =>
                  /\ InList(n, names)
                  /\ Truthy(p) => InList(NormPhone(p), phones)
            /\ last_call'.op = "remove_contact_from_tier" =>
                  /\ OneLess(n, ListOf(contact_tiers, t, "by_name"), names)
                  /\ Truthy(p) =>
                        OneLess(NormPhone(p), ListOf(contact_tiers, t, "by_phone"), phones)
            /\ config_file' \in {config_file, GarbageFile}
            /\ (/\ config_file.state = "json"
                /\ json_load(config_file.data) = contact_tiers
                /\ contact_tiers' # contact_tiers)
                  => (config_file'.state = "json"
                        => json_load(config_file.data) # contact_tiers')]_vars

\* an add on the default ruleset failed to save: the contact is in memory,
\* the file still holds the default ruleset
C13_Witness ==
    /\ last_call.op = "add_contact_to_tier"
    /\ ret = Raised("ConfigurationError")
    /\ InList(last_call.name, ListOf(contact_tiers, last_call.tier, "by_name"))
    /\ config_file = JsonFile(default_config)
    /\ contact_tiers # default_config

\* the ruleset has one entry for each of the three tiers and no other, and
\* the default tier it resolves unmatched contacts to is one of them
HasThreeTiers(ruleset) ==
    /\ "contact_tiers" \in DOMAIN ruleset
    /\ DOMAIN ruleset.contact_tiers = ContactTier
    /\ Get(Get(ruleset, "default_settings", EmptyDict),
           "uncategorized_contacts", "not_important") \in ContactTier

\* C16: add_contact_to_tier and remove_contact_from_tier, whether their
\* save succeeds or not, take a ruleset with exactly the three tier entries
\* and a default tier among them to a ruleset of that kind; so it stays of
\* that kind along any sequence of them from a loaded valid ruleset.
C16_ThreeTiersKept ==
    [][(MutateStep /\ HasThreeTiers(contact_tiers)) => HasThreeTiers(contact_tiers')]_vars

\* two mutations in a row were made on a loaded ruleset with three tiers,
\* the second one changing the ruleset left by an add
C16_Witness ==
    /\ load_task.state = "done"
    /\ calls = 2
    /\ last_call.op \in {"add_contact_to_tier", "remove_contact_from_tier"}
    /\ last_call.after = "add_contact_to_tier"
    /\ HasThreeTiers(contact_tiers)
    /\ ListOf(contact_tiers, "time_pass_contacts", "by_name") # <<>>

(***************************************************************************)
(* Properties of sanitize_phone_number (checked under SpecPhone).          *)
(***************************************************************************)
Sanitized == last_call.op = "sanitize_phone_number"

\* C14: in the output of sanitize_phone_number a '+' stands only at
\* position 0 (so there is at most one) and every other character is a
\* digit.
C14_PlusOnlyFirst ==
    Sanitized =>
        /\ ret.status = "returned"
        /\ \A i \in 1..Len(ret.value) :
              IF ret.value[i] = "+" THEN i = 1 ELSE ret.value[i] \in Digits

\* a phone with two '+' was sanitized to one '+' followed by its digits
C14_Witness ==
    /\ Sanitized
    /\ last_call.phone = <<"+", "1", "+", "5">>
    /\ ret.value = <<"+", "1", "5">>

(***************************************************************************)
(* Properties of the template lookup (checked under SpecTemplates).        *)
(***************************************************************************)
\* C15: get_reply_template returns normally; for the tier the manager
\* resolved the contact to it returns the template stored under the
\* requested name when the tier has that name, else the tier's "default"
\* template when it has one, else the empty string.
C15_NamedTemplateFirst ==
    last_call.op = "get_reply_template" =>
        LET tier == contact_cache[cache_key(last_call.name, last_call.phone)].tier
            tier_templates ==
                Get(Get(message_templates, "templates", EmptyDict), tier, EmptyDict)
        IN  /\ ret.status = "returned"
            /\ ret.value =
                  IF last_call.template_type \in DOMAIN tier_templates
                  THEN tier_templates[last_call.template_type]
                  ELSE IF "default" \in DOMAIN tier_templates
                  THEN tier_templates["default"]
                  ELSE ""

(***************************************************************************)
(* Further properties of the manager (checked under SpecLoaded).           *)
(***************************************************************************)
\* C17: get_tier_statistics returns normally, with one record per tier of
\* the ruleset: by_name and by_phone are the lengths of the tier's two
\* lists and total is their sum.
C17_TierStatistics ==
    last_call.op = "get_tier_statistics" =>
        /\ ret.status = "returned"
        /\ DOMAIN ret.value = DOMAIN Get(contact_tiers, "contact_tiers", EmptyDict)
        /\ \A t \in DOMAIN ret.value :
              /\ ret.value[t].by_name = Len(ListOf(contact_tiers, t, "by_name"))
              /\ ret.value[t].by_phone = Len(ListOf(contact_tiers, t, "by_phone"))
              /\ ret.value[t].total = ret.value[t].by_name + ret.value[t].by_phone

RemoveReturned == last_call.op = "remove_contact_from_tier" /\ ret.status = "returned"

\* C18: after remove_contact_from_tier(n, p, t) returned, no entry of t's
\* by_name normalizes to the normalized n and, when p is non-empty, no
\* entry of t's by_phone normalizes to the normalized p; so tier t no
\* longer matches the contact by name or by phone.
C18_RemoveUnlists ==
    RemoveReturned =>
        /\ NormName(last_call.name) \notin ListedNames(last_call.tier)
        /\ Truthy(last_call.phone) =>
              NormPhone(last_call.phone) \notin ListedPhones(last_call.tier)

\* no two entries of the list are equal after normalization
NoTwoAlike(lst, Norm(_)) ==
    \A i, j \in DOMAIN lst : Norm(lst[i]) = Norm(lst[j]) => i = j

\* C19: on a manager that started from the default ruleset (empty lists),
\* after an add_contact_to_tier call no tier's by_name holds two entries
\* with the same normalized name and no tier's by_phone holds two entries
\* with the same normalized phone.
C19_AddKeepsSets ==
    (AddReturned /\ load_task.found = "absent") =>
        \A t \in ContactTier :
            /\ NoTwoAlike(ListOf(contact_tiers, t, "by_name"), NormName)
            /\ NoTwoAlike(ListOf(contact_tiers, t, "by_phone"), NormPhone)

\* the identity a cache entry stands for: normalized name, and normalized
\* phone or "no_phone"
Identity(entry) ==
    <<NormName(entry.name),
      IF NormPhone(entry.phone) = <<>> THEN NoPhoneKey ELSE NormPhone(entry.phone)>>

\* C20: the contact cache holds at most one entry per normalized identity:
\* lookups whose names and phones differ only in case, padding or phone
\* formatting share one entry.
C20_OneEntryPerIdentity ==
    \A k1, k2 \in DOMAIN contact_cache :
        Identity(contact_cache[k1]) = Identity(contact_cache[k2]) => k1 = k2

(***************************************************************************)
(* Keyword matching (checked under SpecResolve).                           *)
(***************************************************************************)
\* some keyword of the tier, lower-cased, is a substring of the contact's
\* lower-cased trimmed name
KeywordMatches(tier, name) ==
    \E k \in ListedKeywords(tier) : str_contains(NormName(name), k)

\* C21: a contact whose normalized name contains a keyword of tier t
\* (case-insensitively) and that no higher tier matches resolves to t; a
\* contact without a name, phone or keyword match in any tier is in no
\* tier for _is_contact_in_tier.
C21_KeywordMatch ==
    Categorized =>
        LET n == last_call.name
            p == last_call.phone
            clean_phone == IF Truthy(p) THEN NormPhone(p) ELSE None
        IN  /\ \A t \in ContactTier :
                  (KeywordMatches(t, n) /\ NoHigherTierMatches(t, n, p)) =>
                      /\ ret.status = "returned"
                      /\ ret.value.tier = t
            /\ MatchingTiers(n, p) = {} =>
                  \A t \in ContactTier : ~_is_contact_in_tier(NormName(n), clean_phone, t)

\* "spam" was resolved to the casual tier through its upper-case keyword
\* "SP", although the default tier is MAIN
C21_Witness ==
    /\ Categorized
    /\ last_call.name = <<"s", "p", "a", "m">>
    /\ ListedKeywords("main_contacts") = {}
    /\ ListedKeywords("time_pass_contacts") = {<<"s", "p">>}
    /\ ListedNames("time_pass_contacts") = {}
    /\ ListedPhones("time_pass_contacts") = {}
    /\ contact_tiers.default_settings = [uncategorized_contacts |-> "main_contacts"]
    /\ ret.status = "returned"
    /\ ret.value.tier = "time_pass_contacts"

(***************************************************************************)
(* Digits kept by sanitize_phone_number (checked under SpecPhone).         *)
(***************************************************************************)
\* the digits of the string, in order
DigitsOf(phone) == SelectSeq(phone, LAMBDA c : c \in Digits)

\* C22: the output of sanitize_phone_number is the digit sequence of the
\* input, prefixed by one '+' exactly when the input holds a '+'; a
\* missing or empty input gives the empty string.
C22_KeepsEveryDigit ==
    Sanitized =>
        /\ ret.status = "returned"
        /\ ret.value =
              IF ~Truthy(last_call.phone) THEN <<>>
              ELSE IF "+" \in Range(last_call.phone)
              THEN <<"+">> \o DigitsOf(last_call.phone)
              ELSE DigitsOf(last_call.phone)

(***************************************************************************)
(* The cache after a failed save (checked under SpecCacheStore).           *)
(***************************************************************************)
\* C23: an add_contact_to_tier or remove_contact_from_tier call whose save
\* fails (the call raises) leaves the contact cache exactly as it was.
C23_FailedSaveKeepsCache ==
    [][(MutateStep /\ ret'.status = "raised") => contact_cache' = contact_cache]_vars

\* a mutation for a contact with a cached entry failed to save, and the
\* entry is still cached under the call's key
C23_Witness ==
    /\ last_call.op \in {"add_contact_to_tier", "remove_contact_from_tier"}
    /\ ret = Raised("ConfigurationError")
    /\ last_call.cached # ""
    /\ CachedTier(last_call.name, last_call.phone) = last_call.cached

(***************************************************************************)
(* A failed load (checked under Spec).                                     *)
(***************************************************************************)
\* C24: a load that failed is not swallowed: a manager whose load task
\* ended with an exception answers no call.
C24_FailedLoadSurfaces ==
    [][(CallStep /\ load_task.state = "failed") => ret'.status = "raised"]_vars

(***************************************************************************)
(* What a mutation leaves alone (checked under SpecStore).                 *)
(***************************************************************************)
\* the dict a ruleset holds for a tier ({} when it has none)
TierOf(ruleset, tier) == Get(Get(ruleset, "contact_tiers", EmptyDict), tier, EmptyDict)

\* the entries of a dict other than by_name and by_phone
OtherEntries(d) == [k \in DOMAIN d \ {"by_name", "by_phone"} |-> d[k]]

\* the top-level entries of the ruleset other than contact_tiers
OutsideTiers(ruleset) == [k \in DOMAIN ruleset \ {"contact_tiers"} |-> ruleset[k]]

\* some tier above `tier` lists the name (normalized) in its by_name
ListedHigher(name, tier) ==
    \E h \in ContactTier : Rank[h] < Rank[tier] /\ NormName(name) \in ListedNames(h)

\* C27: add_contact_to_tier(n, p, t) and remove_contact_from_tier(n, p, t)
\* change nothing but t's by_name and by_phone: the other tiers, t's
\* by_keywords and settings, the default tier and the message templates
\* stay as they were; and after an add to a tier below one that lists the
\* contact, the contact still resolves to a tier above the one added to.
C27_OnlyTheTiersLists ==
    /\ [][MutateStep =>
            /\ \A t \in ContactTier \ {last_call'.tier} :
                  TierOf(contact_tiers', t) = TierOf(contact_tiers, t)
            /\ OtherEntries(TierOf(contact_tiers', last_call'.tier))
                  = OtherEntries(TierOf(contact_tiers, last_call'.tier))
            /\ OutsideTiers(contact_tiers') = OutsideTiers(contact_tiers)
            /\ message_templates' = message_templates]_vars
    /\ [](/\ last_call.op = "add_contact_to_tier"
           /\ ListedHigher(last_call.name, last_call.tier)
          => LET now == categorize_contact(last_call.name, last_call.phone)
             IN  /\ now.status = "returned"
                 /\ Rank[now.value.tier] < Rank[last_call.tier])

\* "al", listed in the casual tier of the hand-edited ruleset as "Al ", was
\* added to not_important and still resolves to the casual tier
C27_Witness ==
    /\ last_call.op = "add_contact_to_tier"
    /\ last_call.tier = "not_important"
    /\ last_call.name = <<"a", "l">>
    /\ last_call.phone = None
    /\ ret.status = "returned"
    /\ InList(<<"a", "l">>, ListOf(contact_tiers, "not_important", "by_name"))
    /\ InList(<<"A", "l", " ">>, ListOf(contact_tiers, "time_pass_contacts", "by_name"))
    /\ categorize_contact(<<"a", "l">>, None).value.tier = "time_pass_contacts"

(***************************************************************************)
(* Lookups made around the load task (checked under Spec).                 *)
(***************************************************************************)
\* C28: once the load task has completed, a get_contact_info call that
\* returns carries the tier and the settings categorize_contact gives for
\* the same arguments on the loaded ruleset; no entry computed on the
\* empty ruleset the manager holds before the load is returned.
C28_LoadBeforeRetained ==
    [][(/\ CallStep
        /\ load_task.state = "done"
        /\ last_call'.op = "get_contact_info"
        /\ ret'.status = "returned")
       => LET now == categorize_contact(last_call'.name, last_call'.phone)
          IN  /\ now.status = "returned"
              /\ ret'.value.tier = now.value.tier
              /\ ret'.value.settings = now.value.settings]_vars

(***************************************************************************)
(* The by_phone lists under adds (checked under SpecLoaded).               *)
(***************************************************************************)
\* C29: no tier's by_phone list holds the empty string: an add whose phone
\* is empty, missing or without any digit or '+' adds nothing to by_phone.
C29_NoEmptyPhone ==
    \A t \in ContactTier : ~InList(<<>>, ListOf(contact_tiers, t, "by_phone"))

(***************************************************************************)
(* Calls made from several threads (checked under SpecThreads).            *)
(***************************************************************************)
\* thread t is inside add_contact_to_tier or remove_contact_from_tier with
\* a non-empty phone, has applied the name change to by_name and has not
\* yet applied the phone change to by_phone
NameDonePhonePending(t) ==
    LET c == threads[t]
        listed == InList(c.name, ListOf(contact_tiers, c.tier, "by_name"))
    IN  /\ c.pc \in {"test_phone", "update_phone"}
        /\ Truthy(c.phone)
        /\ IF c.op = "add_contact_to_tier" THEN listed ELSE ~listed

\* C25: no categorize_contact call runs while an add_contact_to_tier or
\* remove_contact_from_tier call with a non-empty phone has changed by_name
\* and not yet by_phone: the ruleset a lookup reads is never half-mutated.
C25_NoPartialMutationSeen ==
    [][(CallStep /\ last_call'.op = "categorize_contact")
       => \A t \in Threads : ~NameDonePhonePending(t)]_vars

\* the ruleset add_contact_to_tier leaves when it runs alone on `ruleset`
AddAlone(ruleset, contact_name, phone_number, tier) ==
    LET tiers == Get(ruleset, "contact_tiers", EmptyDict)
        tier_data == Get(tiers, tier, EmptyDict)
        named == Put(tier_data, "by_name",
                     names_after_add(Get(tier_data, "by_name", <<>>), contact_name))
        phoned == IF Truthy(phone_number)
                  THEN Put(named, "by_phone",
                           phones_after_add(Get(named, "by_phone", <<>>), phone_number))
                  ELSE named
    IN  Put(ruleset, "contact_tiers", Put(tiers, tier, phoned))

\* the ruleset remove_contact_from_tier leaves when it runs alone on `ruleset`
RemoveAlone(ruleset, contact_name, phone_number, tier) ==
    LET tiers == Get(ruleset, "contact_tiers", EmptyDict)
        tier_data == Get(tiers, tier, EmptyDict)
        names_list == Get(tier_data, "by_name", <<>>)
        named == IF InList(contact_name, names_list)
                 THEN Put(tier_data, "by_name", list_remove(names_list, contact_name))
                 ELSE tier_data
        phones_list == Get(named, "by_phone", <<>>)
        clean_phone == sanitize_phone_number(phone_number)
        phoned == IF Truthy(phone_number) /\ InList(clean_phone, phones_list)
                  THEN Put(named, "by_phone", list_remove(phones_list, clean_phone))
                  ELSE named
    IN  IF phoned = tier_data THEN ruleset
        ELSE Put(ruleset, "contact_tiers", Put(tiers, tier, phoned))

\* the ruleset the call of thread t leaves when it runs alone on `ruleset`
CallAlone(ruleset, t) ==
    IF threads[t].op = "add_contact_to_tier"
    THEN AddAlone(ruleset, threads[t].name, threads[t].phone, threads[t].tier)
    ELSE RemoveAlone(ruleset, threads[t].name, threads[t].phone, threads[t].tier)

\* the rulesets the two calls leave when one runs after the other
SequentialResults ==
    {CallAlone(CallAlone(RulesetCustom, a), b) :
        <<a, b>> \in {o \in Threads \X Threads : o[1] # o[2]}}

\* C26: once the calls of all threads have returned (their saves went
\* through), the ruleset file holds the in-memory ruleset, and that ruleset
\* is what the calls leave when run one after the other in some order.
C26_Serialized ==
    (\A t \in Threads : threads[t].pc = "done" /\ threads[t].ret.status = "returned")
    => /\ config_file = JsonFile(contact_tiers)
       /\ contact_tiers \in SequentialResults

(***************************************************************************)
(* The skip list of ConfigManager (checked under SpecSkipList).            *)
(***************************************************************************)
UpdateStep == CallStep /\ last_call'.op = "update_skip_list"

\* C30: update_skip_list validates before it commits: a list that
\* validate_skip_list rejects makes the call raise ConfigurationError and
\* leaves the in-memory skip list and the skip-list file as they were; a
\* list it accepts ends up as the in-memory skip list and in the file.
C30_ValidateBeforeCommit ==
    [][UpdateStep =>
        LET new_skip_list == last_call'.new_skip_list
        IN  IF validate_skip_list(new_skip_list).is_valid
            THEN /\ _skip_list' = new_skip_list
                 /\ skip_list_file' = SkipListFile(new_skip_list)
            ELSE /\ ret' = Raised("ConfigurationError")
                 /\ _skip_list' = _skip_list
                 /\ skip_list_file' = skip_list_file]_vars

====
